---- MODULE Spec2Model ----
(***************************************************************************)
(* A model of the tomboy Game Boy emulator core: the LR35902 CPU of        *)
(* src/src/cpu.rs driving the bus of src/src/bus.rs and the timer of       *)
(* src/src/timer.rs.                                                       *)
(*                                                                         *)
(* The machine is one record m = [cpu, bus, timer, ppu, panic, oos]; every *)
(* method of the source is an operator from the machine before the call to *)
(* the machine after it (a method that also returns a value returns the    *)
(* record [v, m]).  The variables hold the fields of that record.          *)
(*                                                                         *)
(* panic is set where the Rust code would panic (unreachable!()); oos is   *)
(* set when the CPU touches the cartridge RAM, which is modelled with the   *)
(* cartridge and not under the CPU.                                        *)
(*                                                                         *)
(* The PPU of src/src/ppu.rs is modelled on its own, one Ppu::tick per     *)
(* action: its modes, counters, registers, STAT line and fetcher.  The     *)
(* pixel data (tile bytes, the colours in the FIFO, the sprites of a line, *)
(* the frame buffer) is left out: bg_fifo is the number of pixels queued.  *)
(*                                                                         *)
(* The bus of src/src/bus.rs is run on its own as well: Bus::read and      *)
(* Bus::write, Bus::halt_tick (Bus::tick, which ticks the PPU and the      *)
(* timer four times each, then Bus::handle_dma) and its OAM DMA.           *)
(*                                                                         *)
(* The APU of src/src/apu.rs, which the bus holds but does not connect to  *)
(* its address range, is run on its own: Apu::write, Apu::read, Apu::tick. *)
(***************************************************************************)
EXTENDS Integers, Sequences, FiniteSets, TLC

VARIABLES
  cpu,      \* Cpu: a f bc de hl sp pc ime ime_to_set halted mcycles dma
  bus,      \* Bus: mem (the RAM cells written so far) inte intf dma cart
            \* joypad serial apu
  timer,    \* Timer: div tima tima_clock tima_overflow_delay tima_just_reloaded tma tac
  ppu,      \* Ppu: mode ctrl stat ly lyc tcycles stat_int_flag ... and its fetcher
  rom,      \* the cartridge image: the bytes from ProgBase on, zero elsewhere
  panic,    \* the process has panicked
  oos,      \* an unmodelled device register was touched
  steps,    \* the number of step(), tick or halt_tick calls made
  prev,     \* observer: the machine as it was before the last action
  ev        \* observer: the last action: its kind, the opcode it fetched (op),
            \* the machine at its interrupt check (mid), the opcode of the
            \* action before it (lastop) and the machine before that one
            \* (before); the timer, PPU and bus specifications keep their
            \* own counters in it, described at their actions

vars == <<cpu, bus, timer, ppu, rom, panic, oos, steps, prev, ev>>

(***************************************************************************)
(* Fixed-width arithmetic                                                  *)
(***************************************************************************)
RECURSIVE BitAnd(_, _)
BitAnd(x, y) ==
  IF x = 0 \/ y = 0 THEN 0
  ELSE (x % 2) * (y % 2) + 2 * BitAnd(x \div 2, y \div 2)

BitOr(x, y) == x + y - BitAnd(x, y)

BitXor(x, y) == x + y - 2 * BitAnd(x, y)

\* u8 and u16 truncation (`as u8`, wrapping_add, wrapping_sub)
U8(x) == x % 256

U16(x) == x % 65536

\* `as i8`: the byte read as a signed offset
I8(b) == IF b >= 128 THEN b - 256 ELSE b

\* nth_bit(value, bit)
nth_bit(value, bit) == (value \div (2 ^ bit)) % 2 = 1

\* a bitflags value containing a one-bit flag, with it inserted, removed, set
Contains(bits, flag) == (bits \div flag) % 2 = 1

Insert(bits, flag) == IF Contains(bits, flag) THEN bits ELSE bits + flag

Remove(bits, flag) == IF Contains(bits, flag) THEN bits - flag ELSE bits

SetFlag(bits, flag, on) == IF on THEN Insert(bits, flag) ELSE Remove(bits, flag)

Bool(b) == IF b THEN 1 ELSE 0

\* sequencing: F applied to v, the value of one statement named for the
\* statements that follow it; v is evaluated before F is entered
Bind(v, F(_)) == CHOOSE r \in {F(x) : x \in {v}} : TRUE

(***************************************************************************)
(* Flag and interrupt bits                                                 *)
(***************************************************************************)
Flags_z == 128
Flags_n == 64
Flags_h == 32
Flags_c == 16

IFlags_vblank == 1
IFlags_lcd == 2
IFlags_timer == 4
IFlags_serial == 8
IFlags_joypad == 16
IFlags_unused == 224

Timer_enable == 4

(***************************************************************************)
(* Timer (src/src/timer.rs)                                                *)
(***************************************************************************)
send_interrupt(m, int) == [m EXCEPT !.bus.intf = BitOr(@, int)]

\* tick_tima as it would be with a reload delay one tick short
tick_tima_short(m) ==
  IF Contains(m.timer.tac, Timer_enable)
  THEN [m EXCEPT !.timer.tima = (@ + 1) % 256,
                 !.timer.tima_overflow_delay = IF m.timer.tima = 255 THEN 3 ELSE 0]
  ELSE m

tick_tima(m) ==
  IF Contains(m.timer.tac, Timer_enable)
  THEN [m EXCEPT !.timer.tima = (@ + 1) % 256,
                 !.timer.tima_overflow_delay = IF m.timer.tima = 255 THEN 4 ELSE 0]
  ELSE m

Timer_tick(m) ==
  Bind([m EXCEPT !.timer.tima_just_reloaded = FALSE], LAMBDA m1 :
  Bind(IF m1.timer.tima_overflow_delay > 0
       THEN Bind([m1 EXCEPT !.timer.tima_overflow_delay = @ - 1], LAMBDA m1a :
            IF m1a.timer.tima_overflow_delay = 0
            THEN send_interrupt(
                   [m1a EXCEPT !.timer.tima = m1a.timer.tma,
                               !.timer.tima_just_reloaded = TRUE],
                   IFlags_timer)
            ELSE m1a)
       ELSE m1, LAMBDA m2 :
  Bind((m2.timer.div + 1) % 65536, LAMBDA new_div :
  Bind(IF /\ Contains(m2.timer.div, m2.timer.tima_clock)
          /\ ~Contains(new_div, m2.timer.tima_clock)
       THEN tick_tima(m2)
       ELSE m2, LAMBDA m3 :
  [m3 EXCEPT !.timer.div = new_div]))))

tima_clock_bit(tac) ==
  CASE tac % 4 = 0 -> 512
    [] tac % 4 = 1 -> 8
    [] tac % 4 = 2 -> 32
    [] tac % 4 = 3 -> 128

\* Timer::write as it would be if a store to TIMA left the pending reload alone
Timer_write_no_cancel(m, addr, val) ==
  CASE addr = 65284 ->
         [(IF Contains(m.timer.div, m.timer.tima_clock)
           THEN tick_tima(m) ELSE m) EXCEPT !.timer.div = 0]
    [] addr = 65285 ->
         [m EXCEPT !.timer.tima = IF m.timer.tima_just_reloaded THEN @ ELSE val]
    [] addr = 65286 ->
         [m EXCEPT !.timer.tma = val,
                   !.timer.tima = IF m.timer.tima_just_reloaded THEN val ELSE @]
    [] addr = 65287 ->
         Bind([m EXCEPT !.timer.tac = val % 8,
                        !.timer.tima_clock = tima_clock_bit(val % 8)], LAMBDA m1 :
         IF /\ Contains(m1.timer.div, m1.timer.tima_clock)
            /\ ~Contains(m1.timer.tac, Timer_enable)
         THEN tick_tima(m1)
         ELSE m1)
    [] OTHER -> m

Timer_read(m, addr) ==
  CASE addr = 65284 -> m.timer.div \div 256
    [] addr = 65285 -> m.timer.tima
    [] addr = 65286 -> m.timer.tma
    [] addr = 65287 -> BitOr(m.timer.tac, 248)

Timer_write(m, addr, val) ==
  CASE addr = 65284 ->
         [(IF Contains(m.timer.div, m.timer.tima_clock)
           THEN tick_tima(m) ELSE m) EXCEPT !.timer.div = 0]
    [] addr = 65285 ->
         [m EXCEPT !.timer.tima = IF m.timer.tima_just_reloaded THEN @ ELSE val,
                   !.timer.tima_overflow_delay = 0]
    [] addr = 65286 ->
         [m EXCEPT !.timer.tma = val,
                   !.timer.tima = IF m.timer.tima_just_reloaded THEN val ELSE @]
    [] addr = 65287 ->
         Bind([m EXCEPT !.timer.tac = val % 8,
                        !.timer.tima_clock = tima_clock_bit(val % 8)], LAMBDA m1 :
         IF /\ Contains(m1.timer.div, m1.timer.tima_clock)
            /\ ~Contains(m1.timer.tac, Timer_enable)
         THEN tick_tima(m1)
         ELSE m1)
    [] OTHER -> m

\* Ctrl and Stat bits of src/src/ppu.rs
Ctrl_bg_wnd_enabled == 1

Ctrl_obj_enabled == 2

Ctrl_wnd_enabled == 32

Ctrl_lcd_enabled == 128

Stat_lyc_eq_ly == 4

Stat_mode0_int == 8

Stat_mode1_int == 16

Stat_mode2_int == 32

Stat_lyc_int == 64

Stat_unused == 128

is_lcd_enabled(m) == Contains(m.ppu.ctrl, Ctrl_lcd_enabled)

\* self.stat.set(Stat::lyc_eq_ly, self.lyc == self.ly)
set_lyc_eq_ly(m) ==
  [m EXCEPT !.ppu.stat = SetFlag(@, Stat_lyc_eq_ly, m.ppu.lyc = m.ppu.ly)]

\* the OR of the enabled STAT sources, as send_stat_int computes it
stat_line(m) ==
  /\ is_lcd_enabled(m)
  /\ \/ Contains(m.ppu.stat, Stat_lyc_int) /\ Contains(m.ppu.stat, Stat_lyc_eq_ly)
     \/ Contains(m.ppu.stat, Stat_mode0_int) /\ m.ppu.mode = "Hblank"
     \/ Contains(m.ppu.stat, Stat_mode1_int) /\ m.ppu.mode = "Vblank"
     \/ Contains(m.ppu.stat, Stat_mode2_int) /\ m.ppu.mode = "OamScan"

send_stat_int(m) ==
  [(IF stat_line(m) /\ ~m.ppu.stat_int_flag
    THEN send_interrupt(m, IFlags_lcd) ELSE m)
     EXCEPT !.ppu.stat_int_flag = stat_line(m)]

send_vblank_int(m) ==
  [(IF is_lcd_enabled(m) THEN send_interrupt(m, IFlags_vblank) ELSE m)
     EXCEPT !.ppu.frame_ready = TRUE]

ly_inc(m) ==
  send_stat_int(set_lyc_eq_ly(
    [m EXCEPT !.ppu.wnd_line =
                IF m.ppu.ly >= m.ppu.wy /\ m.ppu.wy < 143 /\ m.ppu.wx < 166
                THEN @ + 1 ELSE @,
              !.ppu.ly = @ + 1]))

Fetcher_new ==
  [state |-> "Tile", bg_fifo |-> 0, should_do_step |-> FALSE, x |-> 0,
   wnd_hit |-> FALSE, pixel_x |-> 0, bg_scroll_x |-> 0, wnd_scroll_x |-> 0]

Fetcher_reset(m) == [m EXCEPT !.ppu.fetcher = Fetcher_new]

\* push_pixel: the pixel popped from the FIFO is discarded for the scroll
\* or leaves the FIFO for the frame buffer at pixel_x
push_pixel(m) ==
  IF ~is_lcd_enabled(m) THEN [m EXCEPT !.ppu.fetcher.pixel_x = @ + 1]
  ELSE IF m.ppu.fetcher.bg_fifo = 0 THEN m
  ELSE IF m.ppu.fetcher.wnd_scroll_x > 0
       THEN [m EXCEPT !.ppu.fetcher.bg_fifo = @ - 1,
                      !.ppu.fetcher.wnd_scroll_x = @ - 1]
  ELSE IF ~m.ppu.fetcher.wnd_hit /\ m.ppu.fetcher.bg_scroll_x < (m.ppu.scx % 8)
       THEN [m EXCEPT !.ppu.fetcher.bg_fifo = @ - 1,
                      !.ppu.fetcher.bg_scroll_x = @ + 1]
  ELSE [m EXCEPT !.ppu.fetcher.bg_fifo = @ - 1,
                 !.ppu.fetcher.pixel_x = @ + 1]

\* Ppu::bg_palette and Ppu::obj_palette: the shade of a colour id
bg_palette(m, color_id) == (m.ppu.bgp \div (4 ^ color_id)) % 4

obj_palette(m, obp, color_id) ==
  ((IF obp THEN m.ppu.obp1 ELSE m.ppu.obp0) \div (4 ^ color_id)) % 4

\* ObjFifoEntry::default(), what an empty cell of obj_scanline yields
ObjFifoEntry_default == [color |-> 0, palette |-> FALSE, priority |-> FALSE]

\* the cell fill_obj_scanline stores for a pixel of colour color of an
\* object with the attribute byte attr (OamObject::new)
ObjFifoEntry_new(color, attr) ==
  [color |-> color, palette |-> nth_bit(attr, 4), priority |-> ~nth_bit(attr, 7)]

\* push_pixel: the shade set at pixel_x for the colour popped from the FIFO
\* and the cell of obj_scanline
push_pixel_color(m, bg_color, obj) ==
  IF /\ Contains(m.ppu.ctrl, Ctrl_obj_enabled)
     /\ obj.color # 0
     /\ (obj.priority \/ bg_color = 0)
  THEN obj_palette(m, obj.palette, obj.color)
  ELSE IF Contains(m.ppu.ctrl, Ctrl_bg_wnd_enabled)
  THEN bg_palette(m, bg_color)
  ELSE bg_palette(m, 0)

\* the fetcher's step in its current state (the match of fetcher_step)
fetcher_state_step(m) ==
  CASE m.ppu.fetcher.state = "Tile" ->
         [m EXCEPT !.ppu.fetcher.x = (@ + 1) % 32,
                   !.ppu.fetcher.state = "DataLow"]
    [] m.ppu.fetcher.state = "DataLow" -> [m EXCEPT !.ppu.fetcher.state = "DataHigh"]
    [] m.ppu.fetcher.state = "DataHigh" -> [m EXCEPT !.ppu.fetcher.state = "Push"]
    [] m.ppu.fetcher.state = "Push" ->
         IF m.ppu.fetcher.bg_fifo = 0
         THEN [m EXCEPT !.ppu.fetcher.bg_fifo = 8, !.ppu.fetcher.state = "Tile"]
         ELSE [m EXCEPT !.ppu.fetcher.should_do_step = FALSE]

fetcher_step(m) ==
  IF /\ ~m.ppu.fetcher.wnd_hit
     /\ Contains(m.ppu.ctrl, Ctrl_wnd_enabled)
     /\ m.ppu.fetcher.pixel_x + 7 >= m.ppu.wx
     /\ m.ppu.ly >= m.ppu.wy
  THEN [m EXCEPT !.ppu.fetcher.wnd_hit = TRUE,
                 !.ppu.fetcher.x = 0,
                 !.ppu.fetcher.wnd_scroll_x = IF m.ppu.wx < 7 THEN 7 - m.ppu.wx ELSE @,
                 !.ppu.fetcher.bg_fifo = 0,
                 !.ppu.fetcher.should_do_step = FALSE,
                 !.ppu.fetcher.state = "Tile"]
  ELSE Bind(IF m.ppu.fetcher.should_do_step THEN fetcher_state_step(m) ELSE m,
       LAMBDA m1 :
       push_pixel([m1 EXCEPT !.ppu.fetcher.should_do_step = ~@]))

\* the arm of Ppu::tick for the current mode
Ppu_mode_step(m) ==
  CASE m.ppu.mode = "OamScan" ->
         IF m.ppu.tcycles >= 80
         THEN [m EXCEPT !.ppu.mode = "DrawingPixels", !.ppu.vram_enabled = FALSE]
         ELSE m
    [] m.ppu.mode = "DrawingPixels" ->
         IF m.ppu.fetcher.pixel_x >= 160
         THEN send_stat_int(
                [Fetcher_reset(m) EXCEPT !.ppu.oam_enabled = TRUE,
                                         !.ppu.vram_enabled = TRUE,
                                         !.ppu.mode = "Hblank"])
         ELSE fetcher_step(m)
    [] m.ppu.mode = "Hblank" ->
         IF m.ppu.tcycles >= 456
         THEN IF m.ppu.ly >= 143
              THEN send_stat_int(send_vblank_int([m EXCEPT !.ppu.mode = "Vblank"]))
              ELSE send_stat_int([m EXCEPT !.ppu.mode = "OamScan"])
         ELSE m
    [] m.ppu.mode = "Vblank" ->
         IF m.ppu.ly >= 154
         THEN [send_stat_int([m EXCEPT !.ppu.mode = "OamScan"])
                 EXCEPT !.ppu.oam_enabled = FALSE, !.ppu.ly = 0, !.ppu.wnd_line = 0]
         ELSE m

Ppu_tick(m) ==
  Bind(IF ~is_lcd_enabled(m)
       THEN [m EXCEPT !.ppu.tcycles = @ + 1,
                      !.ppu.frame_ready = @ \/ (m.ppu.tcycles + 1 >= 70224)]
       ELSE m, LAMBDA m1 :
  Bind(IF m1.ppu.tcycles + 1 > 456
       THEN ly_inc([m1 EXCEPT !.ppu.tcycles = 0])
       ELSE [m1 EXCEPT !.ppu.tcycles = @ + 1], LAMBDA m2 :
  send_stat_int(set_lyc_eq_ly(Ppu_mode_step(m2)))))

Ppu_write(m, addr, val) ==
  CASE addr = 65344 ->
         Bind([m EXCEPT !.ppu.ctrl = val], LAMBDA m1 :
         IF is_lcd_enabled(m) = is_lcd_enabled(m1) THEN m1
         ELSE IF is_lcd_enabled(m1)
              THEN send_stat_int(set_lyc_eq_ly(
                     [m1 EXCEPT !.ppu.tcycles = 80, !.ppu.ly = 0, !.ppu.wnd_line = 0,
                                !.ppu.mode = "DrawingPixels"]))
              ELSE [Fetcher_reset(m1) EXCEPT !.ppu.tcycles = 0, !.ppu.ly = 0,
                                             !.ppu.wnd_line = 0, !.ppu.mode = "Hblank",
                                             !.ppu.vram_enabled = TRUE,
                                             !.ppu.oam_enabled = TRUE])
    [] addr = 65345 ->
         [m EXCEPT !.ppu.stat =
            SetFlag(BitAnd(val, 120), Stat_lyc_eq_ly, Contains(m.ppu.stat, Stat_lyc_eq_ly))]
    [] addr = 65346 -> [m EXCEPT !.ppu.scy = val]
    [] addr = 65347 -> [m EXCEPT !.ppu.scx = val]
    [] addr = 65349 -> send_stat_int(set_lyc_eq_ly([m EXCEPT !.ppu.lyc = val]))
    [] addr = 65354 -> [m EXCEPT !.ppu.wy = val]
    [] addr = 65355 -> [m EXCEPT !.ppu.wx = val]
    [] addr = 65351 -> [m EXCEPT !.ppu.bgp = val]
    [] addr = 65352 -> [m EXCEPT !.ppu.obp0 = val]
    [] addr = 65353 -> [m EXCEPT !.ppu.obp1 = val]
    [] OTHER -> m

\* self.mode as u8
PpuMode_u8(mode) ==
  CASE mode = "Hblank" -> 0
    [] mode = "Vblank" -> 1
    [] mode = "OamScan" -> 2
    [] mode = "DrawingPixels" -> 3

Ppu_read(m, addr) ==
  CASE addr = 65344 -> m.ppu.ctrl
    [] addr = 65345 -> BitOr(BitOr(m.ppu.stat, PpuMode_u8(m.ppu.mode)), Stat_unused)
    [] addr = 65346 -> m.ppu.scy
    [] addr = 65347 -> m.ppu.scx
    [] addr = 65348 -> m.ppu.ly
    [] addr = 65349 -> m.ppu.lyc
    [] addr = 65354 -> m.ppu.wy
    [] addr = 65355 -> m.ppu.wx
    [] addr = 65351 -> m.ppu.bgp
    [] addr = 65352 -> m.ppu.obp0
    [] addr = 65353 -> m.ppu.obp1
    [] OTHER -> 0

(***************************************************************************)
(* Joypad (src/src/joypad.rs) and serial port (src/src/serial.rs)          *)
(***************************************************************************)
\* Flags::all() of the joypad
JoypadFlags_all == 207

Joypad_new == [selected |-> "None", buttons |-> JoypadFlags_all, dpad |-> JoypadFlags_all]

button_pressed(m, button) ==
  Bind(IF m.bus.joypad.selected = "Buttons" THEN send_interrupt(m, IFlags_joypad) ELSE m,
       LAMBDA m1 : [m1 EXCEPT !.bus.joypad.buttons = Remove(@, button)])

button_released(m, button) == [m EXCEPT !.bus.joypad.buttons = Insert(@, button)]

dpad_pressed(m, button) ==
  Bind(IF m.bus.joypad.selected = "Dpad" THEN send_interrupt(m, IFlags_joypad) ELSE m,
       LAMBDA m1 : [m1 EXCEPT !.bus.joypad.dpad = Remove(@, button)])

dpad_released(m, button) == [m EXCEPT !.bus.joypad.dpad = Insert(@, button)]

Joypad_read(m) ==
  CASE m.bus.joypad.selected = "Both" ->
         BitOr(BitOr(192, BitAnd(m.bus.joypad.dpad, 15)), BitAnd(m.bus.joypad.buttons, 15))
    [] m.bus.joypad.selected = "Dpad" -> BitOr(208, BitAnd(m.bus.joypad.dpad, 15))
    [] m.bus.joypad.selected = "Buttons" -> BitOr(224, BitAnd(m.bus.joypad.buttons, 15))
    [] OTHER -> 207

Joypad_write(m, val) ==
  [m EXCEPT !.bus.joypad.selected =
     CASE BitAnd(val \div 16, 3) = 0 -> "None"
       [] BitAnd(val \div 16, 3) = 1 -> "Buttons"
       [] BitAnd(val \div 16, 3) = 2 -> "Dpad"
       [] OTHER -> "Both"]

\* Flags::unused of the serial port
SerialFlags_unused == 124

Serial_new == [dummy |-> 255, flags |-> 0]

Serial_read(m, addr) ==
  IF addr = 65281 THEN m.bus.serial.dummy
  ELSE BitOr(m.bus.serial.flags, SerialFlags_unused)

Serial_write(m, addr, val) ==
  CASE addr = 65281 -> [m EXCEPT !.bus.serial.dummy = val]
    [] addr = 65282 -> [m EXCEPT !.bus.serial.flags = val]
    [] OTHER -> m

(***************************************************************************)
(* Bus (src/src/bus.rs) with a ROM-only cartridge (src/src/mbc.rs NoMbc)   *)
(***************************************************************************)
\* the entry point: where the program under execution sits in the cartridge image
ProgBase == 256

\* Cart::rom_read with NoMbc::rom_addr: the image byte at addr
rom_read(addr) ==
  IF addr >= ProgBase /\ addr < ProgBase + Len(rom)
  THEN rom[addr - ProgBase + 1]
  ELSE 0

map_addr(addr) ==
  CASE addr <= 32767 -> "Rom"
    [] addr >= 32768 /\ addr <= 40959 -> "VRam"
    [] addr >= 40960 /\ addr <= 49151 -> "ExRam"
    [] addr >= 49152 /\ addr <= 65023 -> "WRam"
    [] addr >= 65024 /\ addr <= 65183 -> "Oam"
    [] addr >= 65184 /\ addr <= 65279 -> "Unusable"
    [] addr = 65280 -> "Joypad"
    [] addr >= 65281 /\ addr <= 65282 -> "Serial"
    [] addr >= 65284 /\ addr <= 65287 -> "Timer"
    [] addr = 65295 -> "IF"
    [] addr >= 65296 /\ addr <= 65343 -> "Apu"
    [] addr = 65350 -> "OamDma"
    [] (addr >= 65344 /\ addr <= 65355 /\ addr # 65350) \/ addr = 65359 -> "Ppu"
    [] addr = 65360 -> "Boot"
    [] addr >= 65408 /\ addr <= 65534 -> "HRam"
    [] addr = 65535 -> "IE"
    [] OTHER -> "NoImpl"

\* the cell of bus.mem an address of a RAM region names: echo RAM
\* (0xE000..0xFDFF) names the work RAM cell 0x2000 below it
Cell(addr) ==
  IF addr >= 57344 /\ addr <= 65023 THEN addr - 8192 ELSE addr

\* the arrays ram, hram, ppu.vram and ppu.oam all start zeroed
Load(m, addr) ==
  IF Cell(addr) \in DOMAIN m.bus.mem THEN m.bus.mem[Cell(addr)] ELSE 0

Store(m, addr, val) ==
  [m EXCEPT !.bus.mem =
     [c \in (DOMAIN m.bus.mem) \cup {Cell(addr)} |->
        IF c = Cell(addr) THEN val ELSE m.bus.mem[c]]]

\* the region of the bus that is left out here: the cartridge RAM, which is
\* modelled with the cartridge
Unmodelled(addr) == map_addr(addr) = "ExRam"

Bus_read(m, addr) ==
  Bind(map_addr(addr), LAMBDA target :
  CASE target = "Rom" -> rom_read(addr)
    [] target \in {"VRam", "WRam", "Oam", "HRam"} -> Load(m, addr)
    [] target = "Timer" -> Timer_read(m, addr)
    [] target = "IF" -> BitOr(m.bus.intf, IFlags_unused)
    [] target = "IE" -> m.bus.inte
    [] target = "Joypad" -> Joypad_read(m)
    [] target = "Serial" -> Serial_read(m, addr)
    [] target = "Ppu" -> Ppu_read(m, addr)
    [] target = "ExRam" -> 255
    [] OTHER -> 0)

\* Dma::init
BusDma_init(m, val) ==
  [m EXCEPT !.bus.dma = [start |-> val * 256, offset |-> 160, delay |-> TRUE]]

\* Dma::offset: the index of the next byte to copy
BusDma_offset(m) == 160 - m.bus.dma.offset

\* Dma::current: the address of the next byte to copy
BusDma_current(m) == U16(m.bus.dma.start + BusDma_offset(m))

BusDma_advance(m) == [m EXCEPT !.bus.dma.offset = @ - 1]

BusDma_is_transferring(m) == m.bus.dma.offset > 0

RECURSIVE Ppu_ticks(_, _)
\* for _ in 0..n { self.ppu.tick(); }
Ppu_ticks(m, n) ==
  IF n = 0 THEN m ELSE Bind(Ppu_tick(m), LAMBDA m1 : Ppu_ticks(m1, n - 1))

RECURSIVE Timer_ticks(_, _)
\* for _ in 0..n { self.timer.tick(); }
Timer_ticks(m, n) ==
  IF n = 0 THEN m ELSE Bind(Timer_tick(m), LAMBDA m1 : Timer_ticks(m1, n - 1))

\* Bus::tick: four ticks of the PPU, then four of the timer.  The bus's own
\* cycle counter is left out, and so are the four ticks of the APU: no write
\* of the bus reaches the APU, which stays disabled under it, and the tick
\* of a disabled APU only queues silent samples
Bus_tick(m) == Bind(Ppu_ticks(m, 4), LAMBDA m1 : Timer_ticks(m1, 4))

RECURSIVE Bus_ticks(_, _)
\* for _ in 0..n { self.tick(); }
Bus_ticks(m, n) ==
  IF n = 0 THEN m ELSE Bind(Bus_tick(m), LAMBDA m1 : Bus_ticks(m1, n - 1))

Bus_write(m, addr, val) ==
  Bind(map_addr(addr), LAMBDA target :
  CASE target \in {"VRam", "WRam", "Oam", "HRam"} -> Store(m, addr, val)
    [] target = "Timer" -> Timer_write(m, addr, val)
    [] target = "IF" -> [m EXCEPT !.bus.intf = val]
    [] target = "IE" -> [m EXCEPT !.bus.inte = val]
    [] target = "OamDma" -> Bus_ticks(BusDma_init(m, val), 4)
    [] target = "Joypad" -> Joypad_write(m, val)
    [] target = "Serial" -> Serial_write(m, addr, val)
    [] target = "Ppu" -> Ppu_write(m, addr, val)
    [] target = "ExRam" -> [m EXCEPT !.oos = TRUE]
    [] OTHER -> m)

\* handle_dma as it would be without the start delay: the first call copies
handle_dma_no_delay(m) ==
  IF BusDma_is_transferring(m)
  THEN BusDma_advance(
         Store([m EXCEPT !.bus.dma.delay = FALSE],
               65024 + BusDma_offset(m), Bus_read(m, BusDma_current(m))))
  ELSE m

handle_dma(m) ==
  IF m.bus.dma.delay THEN [m EXCEPT !.bus.dma.delay = FALSE]
  ELSE IF BusDma_is_transferring(m)
       THEN BusDma_advance(
              Store(m, 65024 + BusDma_offset(m), Bus_read(m, BusDma_current(m))))
       ELSE m

halt_tick(m) == Bind(Bus_tick(m), LAMBDA m1 : handle_dma(m1))

(***************************************************************************)
(* Cpu: memory access and the clock (src/src/cpu.rs)                       *)
(***************************************************************************)
af(m) == m.cpu.a * 256 + m.cpu.f

\* set_f as it would be without its mask: the low nibble reaches F
set_f_unmasked(m, val) == [m EXCEPT !.cpu.f = val]

set_f(m, val) == [m EXCEPT !.cpu.f = BitAnd(val, 240)]

set_af(m, val) == set_f([m EXCEPT !.cpu.a = val \div 256], val % 256)

hi(r) == r \div 256

lo(r) == r % 256

set_hi(r, val) == (val * 256) + (r % 256)

set_lo(r, val) == (r \div 256) * 256 + val

peek(m, addr) == Bus_read(m, addr)

\* Cpu::tick: one machine cycle; four ticks of the PPU, one of the timer
Cpu_tick(m) ==
  Bind([m EXCEPT !.cpu.mcycles = @ + 1], LAMBDA m0 :
  Bind(Ppu_ticks(m0, 4), LAMBDA m1 : Timer_tick(m1)))

Cpu_read(m, addr) ==
  [v |-> peek(m, addr),
   m |-> Cpu_tick([m EXCEPT !.oos = @ \/ Unmodelled(addr)])]

read16(m, addr) ==
  Bind(Cpu_read(m, addr), LAMBDA r1 :
  Bind(Cpu_read(r1.m, U16(addr + 1)), LAMBDA r2 :
  [v |-> r2.v * 256 + r1.v, m |-> r2.m]))

Dma_init(m, val) ==
  [m EXCEPT !.cpu.dma.start = val * 256,
            !.cpu.dma.offset = 0,
            !.cpu.dma.start_delay = TRUE]

Cpu_write(m, addr, val) ==
  Cpu_tick(IF addr = 65350 THEN Dma_init(m, val) ELSE Bus_write(m, addr, val))

write16(m, addr, val) ==
  Cpu_write(Cpu_write(m, addr, val % 256), U16(addr + 1), val \div 256)

pc_fetch(m) ==
  Bind(Cpu_read(m, m.cpu.pc), LAMBDA r :
  [v |-> r.v, m |-> [r.m EXCEPT !.cpu.pc = U16(@ + 1)]])

pc_fetch16(m) ==
  Bind(pc_fetch(m), LAMBDA r1 :
  Bind(pc_fetch(r1.m), LAMBDA r2 :
  [v |-> r2.v * 256 + r1.v, m |-> r2.m]))

\* stack_push as it would be if it wrote at SP instead of below it
stack_push_at_sp(m, val) ==
  Bind(Cpu_tick(m), LAMBDA m1 :
  Bind(write16(m1, m1.cpu.sp, val), LAMBDA m2 :
  [m2 EXCEPT !.cpu.sp = U16(@ + 65534)]))

stack_push(m, val) ==
  Bind(Cpu_tick(m), LAMBDA m1 :
  Bind(write16(m1, U16(m1.cpu.sp + 65534), val), LAMBDA m2 :
  [m2 EXCEPT !.cpu.sp = U16(@ + 65534)]))

stack_pop(m) ==
  Bind(read16(m, m.cpu.sp), LAMBDA r :
  [v |-> r.v, m |-> [r.m EXCEPT !.cpu.sp = U16(@ + 2)]])

hram(offset) == 65280 + offset

(***************************************************************************)
(* Cpu: operands (src/src/cpu.rs get_operand .. get_bit_op).  An operand   *)
(* descriptor is an InstrTarget [kind, immediate, increment, decrement];   *)
(* the source's ops[i] is ops[i + 1] here (sequences start at 1).          *)
(***************************************************************************)
update_hl(m, target) ==
  IF target.increment THEN [m EXCEPT !.cpu.hl = U16(@ + 1)]
  ELSE IF target.decrement THEN [m EXCEPT !.cpu.hl = U16(@ + 65535)]
  ELSE m

Val(v, m) == [v |-> v, m |-> m]

\* unreachable!() and todo!(): the process panics
Panicked(m) == [m EXCEPT !.panic = TRUE]

get_operand(m, target) ==
  Bind(target.kind, LAMBDA k :
  Bind(target.immediate, LAMBDA imm :
  CASE k \in {"Immediate8", "Signed8"} \/ (k = "Address8" /\ imm) -> pc_fetch(m)
    [] k = "Address8" /\ ~imm ->
         Bind(pc_fetch(m), LAMBDA o : Cpu_read(o.m, hram(o.v)))
    [] k = "Address16" /\ ~imm ->
         Bind(pc_fetch16(m), LAMBDA a : Cpu_read(a.m, a.v))
    [] k = "A" -> Val(m.cpu.a, m)
    [] k = "B" -> Val(hi(m.cpu.bc), m)
    [] k = "C" /\ imm -> Val(lo(m.cpu.bc), m)
    [] k = "C" /\ ~imm -> Cpu_read(m, hram(lo(m.cpu.bc)))
    [] k = "D" -> Val(hi(m.cpu.de), m)
    [] k = "E" -> Val(lo(m.cpu.de), m)
    [] k = "F" -> Val(m.cpu.f, m)
    [] k = "H" -> Val(hi(m.cpu.hl), m)
    [] k = "L" -> Val(lo(m.cpu.hl), m)
    [] k = "BC" /\ ~imm -> Cpu_read(m, m.cpu.bc)
    [] k = "DE" /\ ~imm -> Cpu_read(m, m.cpu.de)
    [] k = "HL" /\ ~imm ->
         Bind(Cpu_read(m, m.cpu.hl), LAMBDA r : Val(r.v, update_hl(r.m, target)))
    [] OTHER -> Val(0, Panicked(m))))

set_result(m, target, val) ==
  LET k == target.kind
      imm == target.immediate
  IN
  CASE k = "Address8" /\ ~imm ->
         Bind(pc_fetch(m), LAMBDA o : Cpu_write(o.m, hram(o.v), val))
    [] k = "Address16" /\ ~imm ->
         Bind(pc_fetch16(m), LAMBDA a : Cpu_write(a.m, a.v, val))
    [] k = "A" -> [m EXCEPT !.cpu.a = val]
    [] k = "B" -> [m EXCEPT !.cpu.bc = set_hi(@, val)]
    [] k = "C" /\ imm -> [m EXCEPT !.cpu.bc = set_lo(@, val)]
    [] k = "C" /\ ~imm -> Cpu_write(m, hram(lo(m.cpu.bc)), val)
    [] k = "D" -> [m EXCEPT !.cpu.de = set_hi(@, val)]
    [] k = "E" -> [m EXCEPT !.cpu.de = set_lo(@, val)]
    [] k = "F" -> set_f(m, val)
    [] k = "H" -> [m EXCEPT !.cpu.hl = set_hi(@, val)]
    [] k = "L" -> [m EXCEPT !.cpu.hl = set_lo(@, val)]
    [] k = "BC" /\ ~imm ->
         [Cpu_write(m, m.cpu.bc, val) EXCEPT !.cpu.bc =
            IF target.increment THEN U16(@ + 1)
            ELSE IF target.decrement THEN U16(@ + 65535)
            ELSE @]
    [] k = "DE" /\ ~imm ->
         [Cpu_write(m, m.cpu.de, val) EXCEPT !.cpu.de =
            IF target.increment THEN U16(@ + 1)
            ELSE IF target.decrement THEN U16(@ + 65535)
            ELSE @]
    [] k = "HL" /\ ~imm -> update_hl(Cpu_write(m, m.cpu.hl, val), target)
    [] OTHER -> Panicked(m)

get_operand16(m, target) ==
  LET k == target.kind
      imm == target.immediate
  IN
  CASE k = "Address8" /\ ~imm ->
         Bind(pc_fetch(m), LAMBDA o : read16(o.m, hram(o.v)))
    [] k = "Immediate16" \/ (k = "Address16" /\ imm) -> pc_fetch16(m)
    [] k = "Address16" /\ ~imm ->
         Bind(pc_fetch16(m), LAMBDA a : read16(a.m, a.v))
    [] k = "SP" -> Val(m.cpu.sp, m)
    [] k = "AF" -> Val(af(m), m)
    [] k = "BC" /\ imm -> Val(m.cpu.bc, m)
    [] k = "BC" /\ ~imm -> read16(m, m.cpu.bc)
    [] k = "DE" /\ imm -> Val(m.cpu.de, m)
    [] k = "DE" /\ ~imm -> read16(m, m.cpu.de)
    [] k = "HL" /\ imm -> Val(m.cpu.hl, m)
    [] k = "HL" /\ ~imm ->
         Bind(read16(m, m.cpu.hl), LAMBDA r : Val(r.v, update_hl(r.m, target)))
    [] OTHER -> Val(0, Panicked(m))

set_result16(m, target, val) ==
  LET k == target.kind
      imm == target.immediate
  IN
  CASE k = "Address8" /\ ~imm ->
         Bind(pc_fetch(m), LAMBDA o : write16(o.m, hram(o.v), val))
    [] k = "Address16" /\ ~imm ->
         Bind(pc_fetch16(m), LAMBDA a : write16(a.m, a.v, val))
    [] k = "SP" -> [m EXCEPT !.cpu.sp = val]
    [] k = "AF" -> set_af(m, val)
    [] k = "BC" /\ imm -> [m EXCEPT !.cpu.bc = val]
    [] k = "BC" /\ ~imm -> write16(m, m.cpu.bc, val)
    [] k = "DE" /\ imm -> [m EXCEPT !.cpu.de = val]
    [] k = "DE" /\ ~imm -> write16(m, m.cpu.de, val)
    [] k = "HL" /\ imm -> [m EXCEPT !.cpu.hl = val]
    [] OTHER -> Panicked(m)

get_cond(m, flag) ==
  CASE flag.kind = "Z" -> Contains(m.cpu.f, Flags_z)
    [] flag.kind = "N" -> Contains(m.cpu.f, Flags_n)
    [] flag.kind = "C" -> Contains(m.cpu.f, Flags_c)
    [] flag.kind = "H" -> Contains(m.cpu.f, Flags_h)
    [] flag.kind = "NZ" -> ~Contains(m.cpu.f, Flags_z)
    [] flag.kind = "NC" -> ~Contains(m.cpu.f, Flags_c)
    [] flag.kind = "NH" -> ~Contains(m.cpu.f, Flags_h)
    [] OTHER -> FALSE

get_interrupt_addr(int) ==
  CASE int.kind = "RST00" -> 0
    [] int.kind = "RST08" -> 8
    [] int.kind = "RST10" -> 16
    [] int.kind = "RST18" -> 24
    [] int.kind = "RST20" -> 32
    [] int.kind = "RST28" -> 40
    [] int.kind = "RST30" -> 48
    [] int.kind = "RST38" -> 56

get_bit_op(bit) ==
  CASE bit.kind = "Bit0" -> 0
    [] bit.kind = "Bit1" -> 1
    [] bit.kind = "Bit2" -> 2
    [] bit.kind = "Bit3" -> 3
    [] bit.kind = "Bit4" -> 4
    [] bit.kind = "Bit5" -> 5
    [] bit.kind = "Bit6" -> 6
    [] bit.kind = "Bit7" -> 7

(***************************************************************************)
(* Cpu: flags                                                              *)
(***************************************************************************)
flag_set(m, flag, on) == [m EXCEPT !.cpu.f = SetFlag(@, flag, on)]

set_carry(m, val) == flag_set(m, Flags_c, val > 255)

set_carry16(m, val) == flag_set(m, Flags_c, val > 65535)

set_hcarry_full(m, a, b, c) ==
  LET res == IF Contains(m.cpu.f, Flags_n)
             THEN Contains(U8(((a % 16) - (b % 16) - (c % 16)) + 256), 16)
             ELSE Contains(U8((a % 16) + (b % 16) + (c % 16)), 16)
  IN  flag_set(m, Flags_h, res)

set_hcarry(m, a, b) == set_hcarry_full(m, a, b, 0)

set_hcarry_with_carry(m, a, b) ==
  set_hcarry_full(m, a, b, Bool(Contains(m.cpu.f, Flags_c)))

set_hcarry16(m, a, b) ==
  LET res == IF Contains(m.cpu.f, Flags_n)
             THEN Contains(U16(((a % 4096) - (b % 4096)) + 65536), 4096)
             ELSE Contains(U16((a % 4096) + (b % 4096)), 4096)
  IN  flag_set(m, Flags_h, res)

set_z(m, val) == flag_set(m, Flags_z, val = 0)

(***************************************************************************)
(* Cpu: the instructions (src/src/cpu.rs nop .. halt)                      *)
(***************************************************************************)
nop(m) == m

ld(m, ops) ==
  Bind(get_operand(m, ops[2]), LAMBDA r : set_result(r.m, ops[1], r.v))

ld16(m, ops) ==
  Bind(get_operand16(m, ops[2]), LAMBDA r : set_result16(r.m, ops[1], r.v))

ldhl(m) == Cpu_tick([m EXCEPT !.cpu.sp = m.cpu.hl])

push(m, ops) ==
  Bind(get_operand16(m, ops[1]), LAMBDA r : stack_push(r.m, r.v))

pop(m, ops) ==
  Bind(stack_pop(m), LAMBDA r : set_result16(r.m, ops[1], r.v))

\* the flags LD HL,SP+e and ADD SP,e compute from sp and the offset
sp_offset_flags(m, offset, res) ==
  Bind(flag_set(flag_set(m, Flags_z, FALSE), Flags_n, FALSE), LAMBDA m1 :
  Bind(m1.cpu.sp, LAMBDA sp :
  IF offset < 0
  THEN flag_set(flag_set(m1, Flags_c, (res % 256) <= (sp % 256)),
                Flags_h, (res % 16) <= (sp % 16))
  ELSE set_hcarry(set_carry(m1, (sp % 256) + offset), U8(sp), U8(offset))))

ldsp(m, ops) ==
  Bind(get_operand(m, ops[3]), LAMBDA r :
  Bind(I8(r.v), LAMBDA offset :
  Bind(U16(r.m.cpu.sp + offset + 65536), LAMBDA res :
  Cpu_tick(set_result16(sp_offset_flags(r.m, offset, res), ops[1], res)))))

add(m, ops) ==
  Bind(get_operand(m, ops[2]), LAMBDA r :
  Bind(r.m.cpu.a, LAMBDA a :
  Bind(a + r.v, LAMBDA res :
  [set_carry(
     set_hcarry(flag_set(set_z(r.m, U8(res)), Flags_n, FALSE), a, r.v),
     res) EXCEPT !.cpu.a = U8(res)])))

adc(m, ops) ==
  Bind(get_operand(m, ops[2]), LAMBDA r :
  Bind(r.m.cpu.a, LAMBDA a :
  Bind(a + r.v + Bool(Contains(r.m.cpu.f, Flags_c)), LAMBDA res :
  [set_carry(
     set_hcarry_with_carry(flag_set(set_z(r.m, U8(res)), Flags_n, FALSE), a, r.v),
     res) EXCEPT !.cpu.a = U8(res)])))

sub(m, ops) ==
  Bind(get_operand(m, ops[2]), LAMBDA r :
  Bind(r.m.cpu.a, LAMBDA a :
  Bind(U16((a - r.v) + 65536), LAMBDA res :
  [set_carry(
     set_hcarry(flag_set(set_z(r.m, U8(res)), Flags_n, TRUE), a, r.v),
     res) EXCEPT !.cpu.a = U8(res)])))

sbc(m, ops) ==
  Bind(get_operand(m, ops[2]), LAMBDA r :
  Bind(r.m.cpu.a, LAMBDA a :
  Bind(U16((a - r.v - Bool(Contains(r.m.cpu.f, Flags_c))) + 65536), LAMBDA res :
  [set_carry(
     set_hcarry_with_carry(flag_set(set_z(r.m, U8(res)), Flags_n, TRUE), a, r.v),
     res) EXCEPT !.cpu.a = U8(res)])))

cp(m, ops) ==
  Bind(get_operand(m, ops[2]), LAMBDA r :
  Bind(r.m.cpu.a, LAMBDA a :
  Bind(U16((a - r.v) + 65536), LAMBDA res :
  set_carry(
    set_hcarry(flag_set(set_z(r.m, U8(res)), Flags_n, TRUE), a, r.v),
    res))))

inc(m, ops) ==
  Bind(get_operand(m, ops[1]), LAMBDA r :
  Bind(U8(r.v + 1), LAMBDA res :
  set_result(set_hcarry(flag_set(set_z(r.m, res), Flags_n, FALSE), r.v, 1),
             ops[1], res)))

inc16(m, ops) ==
  Bind(get_operand16(m, ops[1]), LAMBDA r :
  Cpu_tick(set_result16(r.m, ops[1], U16(r.v + 1))))

dec(m, ops) ==
  Bind(get_operand(m, ops[1]), LAMBDA r :
  Bind(U8(r.v + 255), LAMBDA res :
  set_result(
    set_hcarry(flag_set(flag_set(r.m, Flags_z, res = 0), Flags_n, TRUE), r.v, 1),
    ops[1], res)))

dec16(m, ops) ==
  Bind(get_operand16(m, ops[1]), LAMBDA r :
  Cpu_tick(set_result16(r.m, ops[1], U16(r.v + 65535))))

\* the closure a handler passes is the function it denotes
u8_bitand == [p \in (0..255) \X (0..255) |-> BitAnd(p[1], p[2])]

u8_bitor == [p \in (0..255) \X (0..255) |-> BitOr(p[1], p[2])]

u8_bitxor == [p \in (0..255) \X (0..255) |-> BitXor(p[1], p[2])]

logical(m, ops, f) ==
  Bind(get_operand(m, ops[2]), LAMBDA r :
  Bind(f[<<r.m.cpu.a, r.v>>], LAMBDA res :
  [flag_set(flag_set(set_z(r.m, res), Flags_n, FALSE), Flags_c, FALSE)
     EXCEPT !.cpu.a = res]))

and(m, ops) == flag_set(logical(m, ops, u8_bitand), Flags_h, TRUE)

or(m, ops) == flag_set(logical(m, ops, u8_bitor), Flags_h, FALSE)

xor(m, ops) == flag_set(logical(m, ops, u8_bitxor), Flags_h, FALSE)

ccf(m) ==
  flag_set(flag_set(flag_set(m, Flags_n, FALSE), Flags_h, FALSE),
           Flags_c, ~Contains(m.cpu.f, Flags_c))

scf(m) ==
  flag_set(flag_set(flag_set(m, Flags_n, FALSE), Flags_h, FALSE), Flags_c, TRUE)

daa(m) ==
  LET f == m.cpu.f
      a == m.cpu.a
      n == Contains(f, Flags_n)
      fix_lo == Contains(f, Flags_h) \/ (~n /\ (a % 16) > 9)
      fix_hi == Contains(f, Flags_c) \/ (~n /\ a > 153)
      correction == (IF fix_lo THEN 6 ELSE 0) + (IF fix_hi THEN 96 ELSE 0)
      signed == IF n THEN U8(256 - correction) ELSE correction
      res == U8(a + signed)
  IN  [flag_set(flag_set(set_z(m, res), Flags_c, fix_hi), Flags_h, FALSE)
         EXCEPT !.cpu.a = res]

cpl(m) ==
  flag_set(flag_set([m EXCEPT !.cpu.a = 255 - @], Flags_n, TRUE), Flags_h, TRUE)

addhl(m, ops) ==
  Bind(get_operand16(m, ops[2]), LAMBDA r :
  Bind(r.m.cpu.hl, LAMBDA hl :
  Bind(hl + r.v, LAMBDA res :
  Cpu_tick([set_hcarry16(set_carry16(flag_set(r.m, Flags_n, FALSE), res), hl, r.v)
              EXCEPT !.cpu.hl = U16(res)]))))

addsp(m, ops) ==
  Bind(get_operand(m, ops[2]), LAMBDA r :
  Bind(I8(r.v), LAMBDA offset :
  Bind(U16(r.m.cpu.sp + offset + 65536), LAMBDA res :
  Cpu_tick(Cpu_tick([sp_offset_flags(r.m, offset, res) EXCEPT !.cpu.sp = res])))))

\* the accumulator as an operand (ACC_TARGET)
ACC_TARGET ==
  [kind |-> "A", immediate |-> TRUE, increment |-> FALSE, decrement |-> FALSE]

rotate_left(val) == ((val * 2) % 256) + (val \div 128)

rotate_right(val) == (val \div 2) + ((val % 2) * 128)

shl(val) == (val * 2) % 256

shr(val) == val \div 2

\* the carry closures: bit 7, bit 0
carry_bit7 == [val \in 0..255 |-> val >= 128]

carry_bit0 == [val \in 0..255 |-> val % 2 = 1]

shift(m, ops, f, carry) ==
  Bind(get_operand(m, ops[1]), LAMBDA r :
  Bind(f[r.v], LAMBDA res :
  set_result(
    flag_set(flag_set(flag_set(set_z(r.m, res), Flags_n, FALSE),
                      Flags_c, carry[r.v]),
             Flags_h, FALSE),
    ops[1], res)))

shift_acc(m, f, carry) ==
  flag_set(shift(m, <<ACC_TARGET>>, f, carry), Flags_z, FALSE)

rlca(m) == shift_acc(m, [val \in 0..255 |-> rotate_left(val)], carry_bit7)

rrca(m) == shift_acc(m, [val \in 0..255 |-> rotate_right(val)], carry_bit0)

rla(m) ==
  LET carry == Bool(Contains(m.cpu.f, Flags_c))
  IN  shift_acc(m, [val \in 0..255 |-> BitOr(shl(val), carry)], carry_bit7)

rra(m) ==
  LET carry == Bool(Contains(m.cpu.f, Flags_c))
  IN  shift_acc(m, [val \in 0..255 |-> BitOr(carry * 128, shr(val))], carry_bit0)

rlc(m, ops) == shift(m, ops, [val \in 0..255 |-> rotate_left(val)], carry_bit7)

rrc(m, ops) == shift(m, ops, [val \in 0..255 |-> rotate_right(val)], carry_bit0)

rl(m, ops) ==
  LET carry == Bool(Contains(m.cpu.f, Flags_c))
  IN  shift(m, ops, [val \in 0..255 |-> BitOr(shl(val), carry)], carry_bit7)

rr(m, ops) ==
  LET carry == Bool(Contains(m.cpu.f, Flags_c))
  IN  shift(m, ops, [val \in 0..255 |-> BitOr(carry * 128, shr(val))], carry_bit0)

sla(m, ops) == shift(m, ops, [val \in 0..255 |-> shl(val)], carry_bit7)

sra(m, ops) ==
  shift(m, ops, [val \in 0..255 |-> BitOr(BitAnd(val, 128), shr(val))], carry_bit0)

srl(m, ops) == shift(m, ops, [val \in 0..255 |-> shr(val)], carry_bit0)

swap(m, ops) ==
  Bind(get_operand(m, ops[1]), LAMBDA r :
  Bind(((r.v % 16) * 16) + (r.v \div 16), LAMBDA res :
  set_result(
    flag_set(flag_set(flag_set(set_z(r.m, res), Flags_n, FALSE),
                      Flags_h, FALSE),
             Flags_c, FALSE),
    ops[1], res)))

bit(m, ops) ==
  Bind(get_operand(m, ops[2]), LAMBDA r :
  flag_set(flag_set(set_z(r.m, BitAnd(r.v, 2 ^ get_bit_op(ops[1]))),
                    Flags_n, FALSE),
           Flags_h, TRUE))

res(m, ops) ==
  Bind(get_operand(m, ops[2]), LAMBDA r :
  set_result(r.m, ops[2], BitAnd(r.v, 255 - (2 ^ get_bit_op(ops[1])))))

set(m, ops) ==
  Bind(get_operand(m, ops[2]), LAMBDA r :
  set_result(r.m, ops[2], BitOr(r.v, 2 ^ get_bit_op(ops[1]))))

jp(m, ops) ==
  Bind(get_operand16(m, ops[1]), LAMBDA r :
  Cpu_tick([r.m EXCEPT !.cpu.pc = r.v]))

jphl(m) == [m EXCEPT !.cpu.pc = m.cpu.hl]

jpc(m, ops) ==
  Bind(get_operand16(m, ops[2]), LAMBDA r :
  IF get_cond(r.m, ops[1])
  THEN Cpu_tick([r.m EXCEPT !.cpu.pc = r.v])
  ELSE r.m)

jr(m, ops) ==
  Bind(get_operand(m, ops[1]), LAMBDA r :
  Cpu_tick([r.m EXCEPT !.cpu.pc = U16(@ + I8(r.v) + 65536)]))

jrc(m, ops) ==
  Bind(get_operand(m, ops[2]), LAMBDA r :
  IF get_cond(r.m, ops[1])
  THEN Cpu_tick([r.m EXCEPT !.cpu.pc = U16(@ + I8(r.v) + 65536)])
  ELSE r.m)

call(m, ops) ==
  Bind(get_operand16(m, ops[1]), LAMBDA r :
  Cpu_tick([stack_push(r.m, r.m.cpu.pc) EXCEPT !.cpu.pc = r.v]))

callc(m, ops) ==
  Bind(get_operand16(m, ops[2]), LAMBDA r :
  IF get_cond(r.m, ops[1])
  THEN Cpu_tick([stack_push(r.m, r.m.cpu.pc) EXCEPT !.cpu.pc = r.v])
  ELSE r.m)

ret(m) ==
  Bind(stack_pop(m), LAMBDA r : Cpu_tick([r.m EXCEPT !.cpu.pc = r.v]))

retc(m, ops) ==
  Bind(Cpu_tick(m), LAMBDA m1 :
  IF get_cond(m1, ops[1])
  THEN Bind(stack_pop(m1), LAMBDA r : Cpu_tick([r.m EXCEPT !.cpu.pc = r.v]))
  ELSE m1)

reti(m) ==
  Bind(stack_pop([m EXCEPT !.cpu.ime = TRUE]), LAMBDA r :
  Cpu_tick([r.m EXCEPT !.cpu.pc = r.v]))

rst(m, ops) ==
  Bind(Cpu_tick(m), LAMBDA m1 :
  [stack_push(m1, m1.cpu.pc) EXCEPT !.cpu.pc = get_interrupt_addr(ops[1])])

di(m) == [m EXCEPT !.cpu.ime = FALSE, !.cpu.ime_to_set = FALSE]

ei(m) == [m EXCEPT !.cpu.ime_to_set = TRUE]

stop(m, ops) == m

halt(m) == [m EXCEPT !.cpu.halted = TRUE]

(***************************************************************************)
(* The instruction table INSTRUCTIONS, which the program loads from        *)
(* utils/instr.json (the gbdev opcode table): the operands of each opcode. *)
(***************************************************************************)
Reg(k) == [kind |-> k, immediate |-> TRUE, increment |-> FALSE, decrement |-> FALSE]

Ind(k) == [kind |-> k, immediate |-> FALSE, increment |-> FALSE, decrement |-> FALSE]

IndInc(k) == [kind |-> k, immediate |-> FALSE, increment |-> TRUE, decrement |-> FALSE]

IndDec(k) == [kind |-> k, immediate |-> FALSE, increment |-> FALSE, decrement |-> TRUE]

\* register fields of an opcode: r8 (B C D E H L [HL] A), r16, r16 of PUSH/POP,
\* the pointer of LD [r16],A, the condition, the RST vector, the bit number
R8(i) == <<Reg("B"), Reg("C"), Reg("D"), Reg("E"), Reg("H"), Reg("L"), Ind("HL"), Reg("A")>>[i + 1]

R16(i) == <<Reg("BC"), Reg("DE"), Reg("HL"), Reg("SP")>>[i + 1]

R16Stk(i) == <<Reg("BC"), Reg("DE"), Reg("HL"), Reg("AF")>>[i + 1]

R16Mem(i) == <<Ind("BC"), Ind("DE"), IndInc("HL"), IndDec("HL")>>[i + 1]

Cond(i) == <<Reg("NZ"), Reg("Z"), Reg("NC"), Reg("C")>>[i + 1]

Vec(i) == Reg(<<"RST00", "RST08", "RST10", "RST18", "RST20", "RST28", "RST30", "RST38">>[i + 1])

BitN(i) == Reg(<<"Bit0", "Bit1", "Bit2", "Bit3", "Bit4", "Bit5", "Bit6", "Bit7">>[i + 1])

unprefixed(op) ==
  LET y == (op \div 8) % 8
      z == op % 8
      p == y \div 2
      q == y % 2
  IN
  CASE op = 8 -> <<Ind("Address16"), Reg("SP")>>
    [] op = 16 -> <<Reg("Immediate8")>>
    [] op = 24 -> <<Reg("Signed8")>>
    [] op \in {32, 40, 48, 56} -> <<Cond(y - 4), Reg("Signed8")>>
    [] op < 64 /\ z = 1 /\ q = 0 -> <<R16(p), Reg("Immediate16")>>
    [] op < 64 /\ z = 1 /\ q = 1 -> <<Reg("HL"), R16(p)>>
    [] op < 64 /\ z = 2 /\ q = 0 -> <<R16Mem(p), Reg("A")>>
    [] op < 64 /\ z = 2 /\ q = 1 -> <<Reg("A"), R16Mem(p)>>
    [] op < 64 /\ z = 3 -> <<R16(p)>>
    [] op < 64 /\ z \in {4, 5} -> <<R8(y)>>
    [] op < 64 /\ z = 6 -> <<R8(y), Reg("Immediate8")>>
    [] op \in 64..127 /\ op # 118 -> <<R8(y), R8(z)>>
    [] op \in 128..191 -> <<Reg("A"), R8(z)>>
    [] op \in {192, 200, 208, 216} -> <<Cond(y)>>
    [] op \in {193, 209, 225, 241} -> <<R16Stk(p)>>
    [] op \in {194, 202, 210, 218} -> <<Cond(y), Reg("Address16")>>
    [] op = 195 -> <<Reg("Address16")>>
    [] op \in {196, 204, 212, 220} -> <<Cond(y), Reg("Address16")>>
    [] op \in {197, 213, 229, 245} -> <<R16Stk(p)>>
    [] op >= 192 /\ z = 6 -> <<Reg("A"), Reg("Immediate8")>>
    [] op >= 192 /\ z = 7 -> <<Vec(y)>>
    [] op = 205 -> <<Reg("Address16")>>
    [] op = 224 -> <<Ind("Address8"), Reg("A")>>
    [] op = 226 -> <<Ind("C"), Reg("A")>>
    [] op = 232 -> <<Reg("SP"), Reg("Signed8")>>
    [] op = 233 -> <<Reg("HL")>>
    [] op = 234 -> <<Ind("Address16"), Reg("A")>>
    [] op = 240 -> <<Reg("A"), Ind("Address8")>>
    [] op = 242 -> <<Reg("A"), Ind("C")>>
    [] op = 248 -> <<Reg("HL"), [Reg("SP") EXCEPT !.increment = TRUE], Reg("Signed8")>>
    [] op = 249 -> <<Reg("SP"), Reg("HL")>>
    [] op = 250 -> <<Reg("A"), Ind("Address16")>>
    [] OTHER -> <<>>

cbprefixed(op) ==
  IF op < 64 THEN <<R8(op % 8)>> ELSE <<BitN((op \div 8) % 8), R8(op % 8)>>

\* unprefixed opcodes first, the CB-prefixed ones from index 256
INSTRUCTIONS(i) ==
  [opcode |-> i % 256,
   operands |-> IF i < 256 THEN unprefixed(i) ELSE cbprefixed(i - 256)]

(***************************************************************************)
(* Cpu: decoding, interrupts and step (src/src/cpu.rs)                     *)
(***************************************************************************)
execute_no_prefix(m, instr) ==
  LET ops == instr.operands
      op == instr.opcode
  IN
  CASE op = 0 -> nop(m)
    [] op \in {2, 6, 10, 14, 18, 22, 26, 30, 34, 38, 42, 46, 50, 54, 58, 62}
         \/ op \in 64..117 \/ op \in 119..127
         \/ op \in {224, 226, 234, 240, 242, 250} -> ld(m, ops)
    [] op \in {1, 8, 17, 33, 49} -> ld16(m, ops)
    [] op = 248 -> ldsp(m, ops)
    [] op = 249 -> ldhl(m)
    [] op \in {4, 12, 20, 28, 36, 44, 52, 60} -> inc(m, ops)
    [] op \in {3, 19, 35, 51} -> inc16(m, ops)
    [] op \in {5, 13, 21, 29, 37, 45, 53, 61} -> dec(m, ops)
    [] op \in {11, 27, 43, 59} -> dec16(m, ops)
    [] op = 7 -> rlca(m)
    [] op \in 128..135 \/ op = 198 -> add(m, ops)
    [] op \in {9, 25, 41, 57} -> addhl(m, ops)
    [] op = 232 -> addsp(m, ops)
    [] op = 15 -> rrca(m)
    [] op = 16 -> stop(m, ops)
    [] op = 23 -> rla(m)
    [] op = 24 -> jr(m, ops)
    [] op \in {32, 40, 48, 56} -> jrc(m, ops)
    [] op = 31 -> rra(m)
    [] op = 39 -> daa(m)
    [] op = 47 -> cpl(m)
    [] op = 55 -> scf(m)
    [] op = 63 -> ccf(m)
    [] op = 118 -> halt(m)
    [] op \in 136..143 \/ op = 206 -> adc(m, ops)
    [] op \in 144..151 \/ op = 214 -> sub(m, ops)
    [] op \in 152..159 \/ op = 222 -> sbc(m, ops)
    [] op \in 160..167 \/ op = 230 -> and(m, ops)
    [] op \in 168..175 \/ op = 238 -> xor(m, ops)
    [] op \in 176..183 \/ op = 246 -> or(m, ops)
    [] op \in 184..191 \/ op = 254 -> cp(m, ops)
    [] op = 201 -> ret(m)
    [] op \in {192, 200, 208, 216} -> retc(m, ops)
    [] op = 217 -> reti(m)
    [] op \in {193, 209, 225, 241} -> pop(m, ops)
    [] op = 195 -> jp(m, ops)
    [] op \in {194, 210, 202, 218} -> jpc(m, ops)
    [] op = 233 -> jphl(m)
    [] op = 205 -> call(m, ops)
    [] op \in {196, 204, 212, 220} -> callc(m, ops)
    [] op \in {197, 213, 229, 245} -> push(m, ops)
    [] op \in {199, 207, 215, 223, 231, 239, 247, 255} -> rst(m, ops)
    [] op = 243 -> di(m)
    [] op = 251 -> ei(m)
    [] OTHER -> m

execute_prefix(m, instr) ==
  LET ops == instr.operands
      op == instr.opcode
  IN
  CASE op \in 0..7 -> rlc(m, ops)
    [] op \in 8..15 -> rrc(m, ops)
    [] op \in 16..23 -> rl(m, ops)
    [] op \in 24..31 -> rr(m, ops)
    [] op \in 32..39 -> sla(m, ops)
    [] op \in 40..47 -> sra(m, ops)
    [] op \in 48..55 -> swap(m, ops)
    [] op \in 56..63 -> srl(m, ops)
    [] op \in 64..127 -> bit(m, ops)
    [] op \in 128..191 -> res(m, ops)
    [] op \in 192..255 -> set(m, ops)

\* Dma of cpu.rs
Dma_current(m) == m.cpu.dma.start + m.cpu.dma.offset

Dma_is_done(m) == m.cpu.dma.offset >= 159

Dma_tick(m) ==
  Bind([m EXCEPT !.cpu.dma.offset = @ + 1], LAMBDA m1 :
  [m1 EXCEPT !.cpu.dma.transfering = ~Dma_is_done(m1)])

dma_write(m) ==
  Bus_write(m, 65024 + m.cpu.dma.offset, peek(m, Dma_current(m)))

\* the flags in the order IFlags defines them
IFlags_all ==
  <<IFlags_unused, IFlags_joypad, IFlags_serial, IFlags_timer, IFlags_lcd, IFlags_vblank>>

RECURSIVE Sum(_)
Sum(seq) == IF seq = <<>> THEN 0 ELSE Head(seq) + Sum(Tail(seq))

\* IFlags::iter(): every defined flag the value contains, in definition
\* order, then one last item holding the bits no contained flag covers
IFlags_iter(bits) ==
  LET named == SelectSeq(IFlags_all, LAMBDA fl : BitAnd(bits, fl) = fl)
      remaining == bits - Sum(named)
  IN  IF remaining # 0 THEN Append(named, remaining) ELSE named

reverse(seq) == [i \in 1..Len(seq) |-> seq[Len(seq) + 1 - i]]

\* handle_interrupts as it would be if the dispatch acknowledged every
\* pending request at once
handle_interrupts_ack_all(m) ==
  Bind(m.bus.intf, LAMBDA intf :
  Bind(reverse(IFlags_iter(BitAnd(m.bus.inte, intf))), LAMBDA pending_ints :
  IF pending_ints = <<>> THEN m
  ELSE
    Bind(pending_ints[1], LAMBDA int :
    IF int \notin {IFlags_vblank, IFlags_lcd, IFlags_timer, IFlags_serial, IFlags_joypad}
    THEN Panicked(m)
    ELSE
      Bind(CASE int = IFlags_vblank -> 64
             [] int = IFlags_lcd -> 72
             [] int = IFlags_timer -> 80
             [] int = IFlags_serial -> 88
             [] int = IFlags_joypad -> 96, LAMBDA addr :
      Bind(Cpu_tick(Cpu_tick([m EXCEPT !.bus.intf = intf - BitAnd(m.bus.inte, intf),
                                       !.cpu.ime = FALSE])), LAMBDA m2 :
      Cpu_tick([stack_push(m2, m2.cpu.pc) EXCEPT !.cpu.pc = addr]))))))

handle_interrupts(m) ==
  Bind(m.bus.intf, LAMBDA intf :
  Bind(reverse(IFlags_iter(BitAnd(m.bus.inte, intf))), LAMBDA pending_ints :
  IF pending_ints = <<>> THEN m
  ELSE
    Bind(pending_ints[1], LAMBDA int :
    IF int \notin {IFlags_vblank, IFlags_lcd, IFlags_timer, IFlags_serial, IFlags_joypad}
    THEN Panicked(m)
    ELSE
      Bind(CASE int = IFlags_vblank -> 64
             [] int = IFlags_lcd -> 72
             [] int = IFlags_timer -> 80
             [] int = IFlags_serial -> 88
             [] int = IFlags_joypad -> 96, LAMBDA addr :
      Bind(Cpu_tick(Cpu_tick([m EXCEPT !.bus.intf = Remove(intf, int),
                                       !.cpu.ime = FALSE])), LAMBDA m2 :
      Cpu_tick([stack_push(m2, m2.cpu.pc) EXCEPT !.cpu.pc = addr]))))))

\* step() from the opcode fetch to the end of its DMA stage
step_execute(m) ==
  Bind(pc_fetch(m), LAMBDA f :
  Bind(IF f.v = 203
       THEN Bind(pc_fetch(f.m), LAMBDA g :
            execute_prefix(g.m, INSTRUCTIONS(256 + g.v)))
       ELSE execute_no_prefix(f.m, INSTRUCTIONS(f.v)), LAMBDA m1 :
  IF m1.cpu.dma.start_delay
  THEN [m1 EXCEPT !.cpu.dma.start_delay = FALSE, !.cpu.dma.transfering = TRUE]
  ELSE IF m1.cpu.dma.transfering THEN Dma_tick(dma_write(m1))
  ELSE m1))

\* the end of step(): the EI latch, else the interrupt check
step_interrupts(m) ==
  IF m.cpu.ime_to_set
  THEN [m EXCEPT !.cpu.ime = TRUE, !.cpu.ime_to_set = FALSE]
  ELSE IF m.cpu.ime THEN handle_interrupts(m)
  ELSE m

\* Cpu::step: m is the state it leaves, mid the state at the end of the
\* instruction, before the interrupt check (the state itself when halted)
step(m) ==
  IF m.cpu.halted
  THEN [mid |-> m,
        m |-> IF BitAnd(m.bus.inte, m.bus.intf) # 0
              THEN [m EXCEPT !.cpu.halted = FALSE]
              ELSE Cpu_tick(m)]
  ELSE Bind(step_execute(m), LAMBDA e : [mid |-> e, m |-> step_interrupts(e)])

(***************************************************************************)
(* Cartridge (src/src/mbc.rs, src/src/cart.rs).  The cartridge is the      *)
(* record bus.cart: the header fields the mappers use, the fields of the   *)
(* mapper structs, and exram as the cells written so far (the vector       *)
(* starts filled with 0xFF).  The image is taken to be as long as its      *)
(* header says.  A remainder by zero and an index past the end of exram    *)
(* set panic; nothing runs after a panic.                                  *)
(***************************************************************************)
\* ROM_SIZE_MAP: the header's ROM size id and the number of 16 KiB banks
ROM_SIZE_MAP ==
  [id \in {0, 1, 2, 3, 4, 5, 6, 7, 8, 82, 83, 84} |->
     CASE id = 82 -> 72 [] id = 83 -> 80 [] id = 84 -> 96 [] OTHER -> 2 ^ (id + 1)]

\* RAM_SIZE_MAP: the header's RAM size id and the number of 8 KiB banks
RAM_SIZE_MAP ==
  [id \in 0..5 |->
     CASE id = 2 -> 1 [] id = 3 -> 4 [] id = 4 -> 16 [] id = 5 -> 8 [] OTHER -> 0]

\* CartHeader::new: the fields of the header the mappers use
CartHeader_new(mapper_code, rom_size_id, ram_size_id) ==
  [mapper_code |-> mapper_code,
   rom_size |-> 16 * 1024 * ROM_SIZE_MAP[rom_size_id],
   ram_size |-> 8 * 1024 * RAM_SIZE_MAP[ram_size_id]]

\* get_mbc: the mapper of a cartridge type
get_mbc(header) ==
  CASE header.mapper_code \in {0, 8, 9} -> "NoMbc"
    [] header.mapper_code \in {1, 2, 3} -> "Mbc1"
    [] header.mapper_code \in {5, 6} -> "Mbc2"
    [] header.mapper_code \in 15..19 -> "Mbc3"
    [] header.mapper_code \in 25..30 -> "Mbc5"

Banking_new(data_size, pages_count, bank_size) ==
  [bank_size |-> bank_size, banks_count |-> data_size \div bank_size,
   banks |-> [i \in 1..pages_count |-> 0]]

Banking_new_rom(header, pages_count) == Banking_new(header.rom_size, pages_count, 16 * 1024)

Banking_new_ram(header) == Banking_new(header.ram_size, 1, 8 * 1024)

\* Banking::set on the field rom_banks or ram_banks of the cartridge; the
\* remainder by banks_count panics when the count is 0
Banking_set(m, field, page, bank) ==
  IF m.panic THEN m
  ELSE Bind(m.bus.cart[field], LAMBDA b :
         IF b.banks_count = 0 THEN [m EXCEPT !.panic = TRUE]
         ELSE [m EXCEPT !.bus.cart[field].banks[(page % Len(b.banks)) + 1] =
                           (bank % b.banks_count) * b.bank_size])

Banking_addr(b, addr) ==
  b.banks[((addr \div b.bank_size) % Len(b.banks)) + 1] + (addr % b.bank_size)

\* Cart::new and Mapper::new of each mapper; rom_banks.set(1, 1) of the
\* banked mappers cannot panic, every ROM has two banks or more
Cart_new(header) ==
  [mapper |-> get_mbc(header),
   rom_size |-> header.rom_size,
   ram_size |-> header.ram_size,
   exram |-> [c \in {} |-> 0],
   rom_banks |-> IF get_mbc(header) = "NoMbc" THEN Banking_new_rom(header, 2)
                 ELSE [Banking_new_rom(header, 2) EXCEPT
                         !.banks[2] = (1 % (header.rom_size \div (16 * 1024))) * 16 * 1024],
   ram_banks |-> Banking_new_ram(header),
   rom_select |-> 1, ram_select |-> 0,
   ram_enabled |-> FALSE, extended_mode |-> FALSE, rtc_select |-> 0]

\* Mapper::rom_addr: NoMbc maps the address to itself, the banked mappers
\* through rom_banks
Mapper_rom_addr(m, addr) ==
  IF m.bus.cart.mapper = "NoMbc" THEN addr
  ELSE Banking_addr(m.bus.cart.rom_banks, addr)

\* Mapper::ram_addr: whether the RAM is enabled, and the index in exram
Mapper_ram_addr(m, addr) ==
  CASE m.bus.cart.mapper = "NoMbc" -> [enabled |-> TRUE, addr |-> addr]
    [] m.bus.cart.mapper = "Mbc2" ->
         [enabled |-> m.bus.cart.ram_enabled, addr |-> addr % 512]
    [] OTHER ->
         [enabled |-> m.bus.cart.ram_enabled,
          addr |-> Banking_addr(m.bus.cart.ram_banks, addr)]

\* the byte the image holds at index i: the number of its bank, plus its
\* offset in the bank
ImageByte(i) == ((i \div 16384) * 5 + i) % 256

\* Cart::rom_read: the image byte at the index the mapper gives
Cart_rom_read(m, addr) ==
  Bind(Mapper_rom_addr(m, addr), LAMBDA i :
    IF i >= m.bus.cart.rom_size THEN [v |-> 0, m |-> [m EXCEPT !.panic = TRUE]]
    ELSE [v |-> ImageByte(i), m |-> m])

\* exram[i]; an index past the end of the vector panics
ExRam_get(m, i) ==
  IF i >= m.bus.cart.ram_size THEN [v |-> 0, m |-> [m EXCEPT !.panic = TRUE]]
  ELSE [v |-> IF i \in DOMAIN m.bus.cart.exram THEN m.bus.cart.exram[i] ELSE 255,
        m |-> m]

\* exram[i] = val
ExRam_set(m, i, val) ==
  IF i >= m.bus.cart.ram_size THEN [m EXCEPT !.panic = TRUE]
  ELSE [m EXCEPT !.bus.cart.exram =
          [c \in (DOMAIN m.bus.cart.exram) \cup {i} |->
             IF c = i THEN val ELSE m.bus.cart.exram[c]]]

\* Cart::ram_read: Mapper::ram_read, which Mbc2 and Mbc3 override
Cart_ram_read(m, addr) ==
  Bind(Mapper_ram_addr(m, addr), LAMBDA a :
    CASE ~a.enabled -> [v |-> 255, m |-> m]
      [] a.enabled /\ m.bus.cart.mapper = "Mbc2" ->
           Bind(ExRam_get(m, a.addr), LAMBDA r : [r EXCEPT !.v = BitOr(@, 240)])
      [] a.enabled /\ m.bus.cart.mapper = "Mbc3" /\ m.bus.cart.rtc_select # 0 ->
           [v |-> 255, m |-> m]
      [] OTHER -> ExRam_get(m, a.addr))

\* Cart::ram_write: Mapper::ram_write, which Mbc2 and Mbc3 override
Cart_ram_write(m, addr, val) ==
  Bind(Mapper_ram_addr(m, addr), LAMBDA a :
    CASE ~a.enabled -> m
      [] a.enabled /\ m.bus.cart.mapper = "Mbc2" -> ExRam_set(m, a.addr, BitOr(val, 240))
      [] a.enabled /\ m.bus.cart.mapper = "Mbc3" /\ m.bus.cart.rtc_select # 0 -> m
      [] OTHER -> ExRam_set(m, a.addr, val))

\* (val).clamp(1, u8::MAX)
clamp1(val) == IF val < 1 THEN 1 ELSE IF val > 255 THEN 255 ELSE val

\* update_banks as it would be if the banking mode did not matter to the
\* 0x0000..0x3FFF page
Mbc1_update_banks_any_mode(m) ==
  Bind(m.bus.cart.ram_select * 32, LAMBDA ext_rom_bank :
    Banking_set(
      Banking_set(
        Banking_set(m, "rom_banks", 0, ext_rom_bank),
        "rom_banks", 1, ext_rom_bank + m.bus.cart.rom_select),
      "ram_banks", 0, IF m.bus.cart.extended_mode THEN m.bus.cart.ram_select ELSE 0))

Mbc1_update_banks(m) ==
  Bind(m.bus.cart.ram_select * 32, LAMBDA ext_rom_bank :
    Banking_set(
      Banking_set(
        Banking_set(m, "rom_banks", 0,
                    IF m.bus.cart.extended_mode THEN ext_rom_bank ELSE 0),
        "rom_banks", 1, ext_rom_bank + m.bus.cart.rom_select),
      "ram_banks", 0, IF m.bus.cart.extended_mode THEN m.bus.cart.ram_select ELSE 0))

Mbc1_rom_write(m, addr, val) ==
  CASE addr <= 8191 -> [m EXCEPT !.bus.cart.ram_enabled = (BitAnd(val, 15) = 10)]
    [] addr >= 8192 /\ addr <= 16383 ->
         Mbc1_update_banks([m EXCEPT !.bus.cart.rom_select = clamp1(BitAnd(val, 31))])
    [] addr >= 16384 /\ addr <= 24575 ->
         Mbc1_update_banks([m EXCEPT !.bus.cart.ram_select = BitAnd(val, 3)])
    [] addr >= 24576 /\ addr <= 32767 ->
         Mbc1_update_banks([m EXCEPT !.bus.cart.extended_mode = nth_bit(val, 0)])
    [] OTHER -> m

Mbc2_rom_write(m, addr, val) ==
  CASE addr <= 16383 /\ ~nth_bit(addr, 8) -> [m EXCEPT !.bus.cart.ram_enabled = (val = 10)]
    [] addr <= 16383 /\ nth_bit(addr, 8) ->
         Banking_set(m, "rom_banks", 1, clamp1(BitAnd(val, 15)))
    [] OTHER -> m

Mbc3_rom_write(m, addr, val) ==
  CASE addr <= 8191 -> [m EXCEPT !.bus.cart.ram_enabled = (val = 10)]
    [] addr >= 8192 /\ addr <= 16383 ->
         Banking_set(m, "rom_banks", 1, clamp1(BitAnd(val, 127)))
    [] addr >= 16384 /\ addr <= 24575 /\ val \in 8..12 ->
         [m EXCEPT !.bus.cart.rtc_select = val]
    [] addr >= 16384 /\ addr <= 24575 /\ val \notin 8..12 ->
         Bind(Banking_set(m, "ram_banks", 0, BitAnd(val, 3)), LAMBDA m1 :
           IF m1.panic THEN m1 ELSE [m1 EXCEPT !.bus.cart.rtc_select = 0])
    [] OTHER -> m

Mbc5_rom_write(m, addr, val) ==
  CASE addr <= 8191 -> [m EXCEPT !.bus.cart.ram_enabled = (val = 10)]
    [] addr >= 8192 /\ addr <= 12287 ->
         Bind(BitOr(BitAnd(m.bus.cart.rom_select, 240), val), LAMBDA rom_select :
           Banking_set([m EXCEPT !.bus.cart.rom_select = rom_select],
                       "rom_banks", 1, rom_select))
    [] addr >= 12288 /\ addr <= 16383 ->
         Bind(BitOr(BitAnd(m.bus.cart.rom_select, 15), BitAnd(val, 2) * 256),
              LAMBDA rom_select :
           Banking_set([m EXCEPT !.bus.cart.rom_select = rom_select],
                       "rom_banks", 1, rom_select))
    [] addr >= 16384 /\ addr <= 24575 -> Banking_set(m, "ram_banks", 0, BitAnd(val, 15))
    [] OTHER -> m

\* Cart::rom_write: Mapper::rom_write of the cartridge's mapper; that of
\* NoMbc does nothing
Cart_rom_write(m, addr, val) ==
  CASE m.bus.cart.mapper = "Mbc1" -> Mbc1_rom_write(m, addr, val)
    [] m.bus.cart.mapper = "Mbc2" -> Mbc2_rom_write(m, addr, val)
    [] m.bus.cart.mapper = "Mbc3" -> Mbc3_rom_write(m, addr, val)
    [] m.bus.cart.mapper = "Mbc5" -> Mbc5_rom_write(m, addr, val)
    [] OTHER -> m

(***************************************************************************)
(* APU (src/src/apu.rs, src/src/apu/square.rs, wave.rs, noise.rs,          *)
(* envelope.rs).  The APU is the record bus.apu: the fields of Apu and of  *)
(* its four channels.  The samples it produces (samples, samples_cycles,   *)
(* volumef_l, volumef_r) are left out.  overflow_checks is the build: with *)
(* it an arithmetic overflow panics, without it the value wraps.           *)
(***************************************************************************)
CPU_CYCLES == 4194304

Envelope_default ==
  [volume_initial |-> 0, volume |-> 0, direction |-> FALSE, timer |-> 0, period |-> 0]

Square_default ==
  [enabled |-> FALSE, panning_l |-> FALSE, panning_r |-> FALSE,
   env |-> Envelope_default,
   sweep |-> [enabled |-> FALSE, period |-> 0, direction |-> FALSE, shift |-> 0,
              timer |-> 0, shadow |-> 0],
   wave_duty |-> 0, duty |-> 0, length_initial |-> 0, length_timer |-> 0,
   length_enabled |-> FALSE, period_initial |-> 0, timer |-> 0]

Wave_default ==
  [enabled |-> FALSE, dac_enabled |-> FALSE, panning_l |-> FALSE, panning_r |-> FALSE,
   output |-> 0, length_initial |-> 0, length_enabled |-> FALSE, length_timer |-> 0,
   period_initial |-> 0, timer |-> 0, position |-> 0,
   ram |-> [i \in 0..15 |-> 0], ram_enabled |-> FALSE, buffer |-> 0]

Noise_default ==
  [enabled |-> FALSE, panning_l |-> FALSE, panning_r |-> FALSE,
   env |-> Envelope_default,
   length_initial |-> 0, length_enabled |-> FALSE, length_timer |-> 0,
   div |-> 0, timer |-> 0, shift |-> 0, lfsr |-> 0, lfsr_7bit |-> FALSE]

\* Apu::default()
Apu_default ==
  [apu_enabled |-> FALSE, volume_l |-> 0, volume_r |-> 0, tcycles |-> 0,
   square1 |-> Square_default, square2 |-> Square_default,
   wave |-> Wave_default, noise |-> Noise_default,
   overflow_checks |-> TRUE]

\* Envelope::tick of the channel ch
Envelope_tick(m, ch) ==
  Bind(m.bus.apu[ch].env, LAMBDA e :
  IF e.period = 0 \/ e.timer = 0 THEN m
  ELSE IF e.timer - 1 # 0 THEN [m EXCEPT !.bus.apu[ch].env.timer = e.timer - 1]
  ELSE [m EXCEPT !.bus.apu[ch].env.timer = e.period,
                 !.bus.apu[ch].env.volume =
                    IF e.volume < 15 /\ e.direction THEN e.volume + 1
                    ELSE IF e.volume > 0 /\ ~e.direction THEN e.volume - 1
                    ELSE e.volume])

Envelope_is_dac_enabled(e) == ~(e.volume_initial = 0 /\ ~e.direction)

Envelope_trigger(m, ch) ==
  [m EXCEPT !.bus.apu[ch].env.timer = m.bus.apu[ch].env.period,
            !.bus.apu[ch].env.volume = m.bus.apu[ch].env.volume_initial]

Envelope_read(e) ==
  BitOr(BitOr(e.period, Bool(e.direction) * 8), U8(e.volume_initial * 16))

Envelope_write(m, ch, val) ==
  [m EXCEPT !.bus.apu[ch].env.period = val % 8,
            !.bus.apu[ch].env.direction = (val \div 8) # 0,
            !.bus.apu[ch].env.volume_initial = val \div 16,
            !.bus.apu[ch].env.volume = val \div 16]

\* Square::disable
Square_disable(m, ch) == [m EXCEPT !.bus.apu[ch].timer = 2048]

\* Square::tick_period
Square_tick_period(m, ch) ==
  Bind(m.bus.apu[ch], LAMBDA sq :
  IF ~sq.enabled \/ sq.timer = 0 THEN m
  ELSE IF sq.timer - 1 # 0 THEN [m EXCEPT !.bus.apu[ch].timer = sq.timer - 1]
  ELSE [m EXCEPT !.bus.apu[ch].timer = 2048 - sq.period_initial,
                 !.bus.apu[ch].duty = (sq.duty + 1) % 8])

\* Square::tick_length, Wave::tick_length, Noise::tick_length
tick_length(m, ch) ==
  Bind(m.bus.apu[ch], LAMBDA c :
  IF c.length_enabled /\ c.length_timer > 0
  THEN [m EXCEPT !.bus.apu[ch].length_timer = c.length_timer - 1,
                 !.bus.apu[ch].enabled = IF c.length_timer - 1 = 0 THEN FALSE ELSE @]
  ELSE m)

\* Square::sweep_freq_get_and_check: the frequency and the machine
sweep_freq_get_and_check(m, ch) ==
  Bind(m.bus.apu[ch].sweep, LAMBDA sw :
  Bind(IF sw.direction
       THEN (sw.shadow \div (2 ^ sw.shift)) - sw.shadow
       ELSE (sw.shadow \div (2 ^ sw.shift)) + sw.shadow, LAMBDA freq :
  IF (freq < 0 \/ freq > 65535) /\ m.bus.apu.overflow_checks
  THEN Val(0, Panicked(m))
  ELSE IF U16(freq + 65536) >= 2048
       THEN Val(U16(freq + 65536), [m EXCEPT !.bus.apu[ch].enabled = FALSE])
       ELSE Val(U16(freq + 65536), m)))

\* Square::tick_sweep
Square_tick_sweep(m, ch) ==
  Bind(m.bus.apu[ch].sweep, LAMBDA sw :
  IF sw.timer = 0 THEN m
  ELSE Bind([m EXCEPT !.bus.apu[ch].sweep.timer =
                         IF sw.timer - 1 # 0 THEN sw.timer - 1
                         ELSE IF sw.period = 0 THEN 8 ELSE sw.period], LAMBDA m1 :
       IF sw.enabled /\ sw.period > 0
       THEN Bind(sweep_freq_get_and_check(m1, ch), LAMBDA r :
            IF r.m.bus.apu[ch].enabled /\ sw.shift > 0 /\ ~r.m.panic
            THEN [r.m EXCEPT !.bus.apu[ch].sweep.shadow = r.v,
                             !.bus.apu[ch].timer = r.v]
            ELSE r.m)
       ELSE m1))

\* Square::read: the value and the machine
Square_read(m, ch, addr) ==
  Bind(m.bus.apu[ch], LAMBDA sq :
  CASE addr = 0 ->
         Val(BitOr(BitOr(BitOr(sq.sweep.shift, Bool(sq.sweep.direction) * 8),
                         sq.sweep.period * 16), 128), m)
    [] addr = 1 -> Val(BitOr(U8(sq.duty * 64), 63), m)
    [] addr = 2 -> Val(Envelope_read(sq.env), m)
    [] addr = 4 -> Val(BitOr(Bool(sq.length_enabled) * 64, 191), m)
    [] OTHER -> Val(0, Panicked(m)))

\* Square::write
Square_write(m, ch, addr, val) ==
  Bind(m.bus.apu[ch], LAMBDA sq :
  CASE addr = 0 ->
         [m EXCEPT !.bus.apu[ch].sweep.shift = val % 8,
                   !.bus.apu[ch].sweep.direction = ((val \div 8) % 2) = 0,
                   !.bus.apu[ch].sweep.period = (val \div 16) % 8]
    [] addr = 1 ->
         [m EXCEPT !.bus.apu[ch].length_initial = 64 - (val % 64),
                   !.bus.apu[ch].wave_duty = val \div 64]
    [] addr = 2 ->
         Bind(Envelope_write(m, ch, val), LAMBDA m1 :
         [m1 EXCEPT !.bus.apu[ch].enabled = Envelope_is_dac_enabled(m1.bus.apu[ch].env)])
    [] addr = 3 ->
         [m EXCEPT !.bus.apu[ch].period_initial = BitOr(BitAnd(sq.period_initial, 3840), val)]
    [] addr = 4 ->
         Bind([m EXCEPT !.bus.apu[ch].period_initial =
                           BitOr(BitAnd(sq.period_initial, 255), (val % 8) * 256),
                        !.bus.apu[ch].length_enabled = nth_bit(val, 6)], LAMBDA m1 :
         IF Envelope_is_dac_enabled(sq.env) /\ nth_bit(val, 7)
         THEN Bind([m1 EXCEPT !.bus.apu[ch].length_timer =
                                 IF sq.length_timer = 0 THEN sq.length_initial ELSE @,
                              !.bus.apu[ch].timer = 2048 - m1.bus.apu[ch].period_initial,
                              !.bus.apu[ch].duty = 0], LAMBDA m2 :
              Bind(Envelope_trigger(m2, ch), LAMBDA m3 :
              Bind([m3 EXCEPT !.bus.apu[ch].enabled = Envelope_is_dac_enabled(sq.env),
                              !.bus.apu[ch].sweep.shadow = m3.bus.apu[ch].timer,
                              !.bus.apu[ch].sweep.timer = sq.sweep.period,
                              !.bus.apu[ch].sweep.enabled =
                                 sq.sweep.period > 0 \/ sq.sweep.shift > 0], LAMBDA m4 :
              IF sq.sweep.shift > 0 THEN sweep_freq_get_and_check(m4, ch).m ELSE m4)))
         ELSE m1)
    [] OTHER -> Panicked(m))

\* Wave::tick_period
Wave_tick_period(m) ==
  Bind([m EXCEPT !.bus.apu.wave.ram_enabled = FALSE], LAMBDA m1 :
  Bind(m1.bus.apu.wave, LAMBDA w :
  IF ~w.enabled \/ w.timer = 0 THEN m1
  ELSE IF w.timer - 1 # 0 THEN [m1 EXCEPT !.bus.apu.wave.timer = w.timer - 1]
  ELSE Bind((w.position + 1) % 32, LAMBDA pos :
       [m1 EXCEPT !.bus.apu.wave.timer = 2048 - w.period_initial,
                  !.bus.apu.wave.position = pos,
                  !.bus.apu.wave.buffer = IF pos % 2 = 0
                                          THEN w.ram[pos \div 2] \div 16
                                          ELSE w.ram[pos \div 2] % 16,
                  !.bus.apu.wave.ram_enabled = TRUE])))

\* Wave::read: the value and the machine
Wave_read(m, addr) ==
  Bind(m.bus.apu.wave, LAMBDA w :
  CASE addr = 65306 -> Val(BitOr(Bool(w.dac_enabled), 127), m)
    [] addr = 65308 -> Val(BitOr(w.output * 32, 159), m)
    [] addr = 65310 -> Val(BitOr(Bool(w.length_enabled) * 64, 191), m)
    [] OTHER -> Val(0, Panicked(m)))

\* Wave::write; output is the OutputLevel as a number (Mute 0 .. Quarter 3)
Wave_write(m, addr, val) ==
  Bind(m.bus.apu.wave, LAMBDA w :
  CASE addr = 65306 ->
         [m EXCEPT !.bus.apu.wave.dac_enabled = ~nth_bit(val, 7),
                   !.bus.apu.wave.enabled = w.enabled /\ ~nth_bit(val, 7)]
    [] addr = 65307 -> [m EXCEPT !.bus.apu.wave.length_initial = 256 - val]
    [] addr = 65308 -> [m EXCEPT !.bus.apu.wave.output = (val \div 32) % 4]
    [] addr = 65309 ->
         [m EXCEPT !.bus.apu.wave.period_initial = BitOr(BitAnd(w.period_initial, 3840), val)]
    [] addr = 65310 ->
         Bind([m EXCEPT !.bus.apu.wave.period_initial =
                           BitOr(BitAnd(w.period_initial, 255), (val % 8) * 256),
                        !.bus.apu.wave.length_enabled = nth_bit(val, 6)], LAMBDA m1 :
         IF nth_bit(val, 7)
         THEN [m1 EXCEPT !.bus.apu.wave.enabled = w.dac_enabled,
                         !.bus.apu.wave.timer = 2048 - m1.bus.apu.wave.period_initial,
                         !.bus.apu.wave.length_timer =
                            IF w.length_timer = 0 THEN w.length_initial ELSE @,
                         !.bus.apu.wave.position = 1]
         ELSE m1)
    [] OTHER -> Panicked(m))

\* Wave::ram_read
Wave_ram_read(m, addr) ==
  IF ~m.bus.apu.wave.enabled THEN m.bus.apu.wave.ram[addr \div 2] ELSE 0

\* Wave::ram_write
Wave_ram_write(m, addr, val) ==
  IF ~m.bus.apu.wave.enabled THEN [m EXCEPT !.bus.apu.wave.ram[addr] = val] ELSE m

\* Noise::disable and the reload of Noise::tick_period: div_code << shift,
\* a u8 shifted by a u8
Noise_reload(m) ==
  Bind(m.bus.apu.noise, LAMBDA n :
  IF n.shift >= 8 /\ m.bus.apu.overflow_checks THEN Panicked(m)
  ELSE [m EXCEPT !.bus.apu.noise.timer =
                    U8((IF n.div = 0 THEN 8 ELSE n.div * 16) * (2 ^ (n.shift % 8)))])

Noise_disable(m) == Noise_reload(m)

\* Noise::tick_period
Noise_tick_period(m) ==
  Bind(m.bus.apu.noise, LAMBDA n :
  IF ~n.enabled \/ n.timer = 0 THEN m
  ELSE IF n.timer - 1 # 0 THEN [m EXCEPT !.bus.apu.noise.timer = n.timer - 1]
  ELSE Bind(Noise_reload([m EXCEPT !.bus.apu.noise.timer = 0]), LAMBDA m1 :
       Bind(BitXor(n.lfsr % 2, (n.lfsr \div 2) % 2), LAMBDA fb :
       Bind(BitOr(n.lfsr \div 2, fb * 16384), LAMBDA l :
       IF m1.panic THEN m1
       ELSE [m1 EXCEPT !.bus.apu.noise.lfsr =
                          IF n.lfsr_7bit
                          THEN BitOr(BitAnd(l, 65535 - 32), fb * 64)
                          ELSE l]))))

\* Noise::read: the value and the machine
Noise_read(m, addr) ==
  Bind(m.bus.apu.noise, LAMBDA n :
  CASE addr = 65313 -> Val(Envelope_read(n.env), m)
    [] addr = 65314 ->
         Val(BitOr(BitOr(n.div, U8(n.lfsr) \div 8), n.shift \div 16), m)
    [] addr = 65315 -> Val(BitOr(Bool(n.length_enabled) \div 64, 191), m)
    [] OTHER -> Val(0, Panicked(m)))

\* Noise::write
Noise_write(m, addr, val) ==
  Bind(m.bus.apu.noise, LAMBDA n :
  CASE addr = 65312 -> [m EXCEPT !.bus.apu.noise.length_initial = 64 - (val % 64)]
    [] addr = 65313 ->
         Bind(Envelope_write(m, "noise", val), LAMBDA m1 :
         [m1 EXCEPT !.bus.apu.noise.enabled = Envelope_is_dac_enabled(m1.bus.apu.noise.env)])
    [] addr = 65314 ->
         [m EXCEPT !.bus.apu.noise.div = val % 8,
                   !.bus.apu.noise.lfsr_7bit = nth_bit(val, 3),
                   !.bus.apu.noise.shift = (val \div 16) % 16]
    [] addr = 65315 ->
         Bind([m EXCEPT !.bus.apu.noise.length_enabled = nth_bit(val, 6)], LAMBDA m1 :
         IF Envelope_is_dac_enabled(n.env) /\ nth_bit(val, 7)
         THEN Bind([m1 EXCEPT !.bus.apu.noise.length_timer =
                                 IF n.length_timer = 0 THEN n.length_initial ELSE @],
              LAMBDA m2 :
              Bind(Envelope_trigger(m2, "noise"), LAMBDA m3 :
              [m3 EXCEPT !.bus.apu.noise.enabled = Envelope_is_dac_enabled(n.env),
                         !.bus.apu.noise.lfsr = 32767]))
         ELSE m1)
    [] OTHER -> Panicked(m))

\* Apu::tick: one T-cycle.  `tcycles % CPU_CYCLES/256` is
\* (tcycles % CPU_CYCLES) / 256: % and / bind alike and group to the left
Apu_tick(m) ==
  IF ~m.bus.apu.apu_enabled \/ m.panic THEN m
  ELSE
  Bind(m.bus.apu.tcycles, LAMBDA t :
  Bind(Noise_tick_period(m), LAMBDA m1 :
  Bind(IF t % 2 = 0 THEN Wave_tick_period(m1) ELSE m1, LAMBDA m2 :
  Bind(IF t % 4 = 0
       THEN Square_tick_period(Square_tick_period(m2, "square1"), "square2")
       ELSE m2, LAMBDA m3 :
  Bind(IF (t % CPU_CYCLES) \div 256 = 0
       THEN tick_length(tick_length(tick_length(tick_length(m3,
              "square1"), "square2"), "wave"), "noise")
       ELSE m3, LAMBDA m4 :
  Bind(IF (t % CPU_CYCLES) \div 128 = 0
       THEN Square_tick_sweep(m4, "square1")
       ELSE m4, LAMBDA m5 :
  Bind(IF (t % CPU_CYCLES) \div 64 = 0
       THEN Envelope_tick(Envelope_tick(Envelope_tick(m5,
              "square1"), "square2"), "noise")
       ELSE m5, LAMBDA m6 :
  IF m6.panic THEN m6 ELSE [m6 EXCEPT !.bus.apu.tcycles = t + 1])))))))

\* Apu::read: the value and the machine
Apu_read(m, addr) ==
  Bind(m.bus.apu, LAMBDA a :
  CASE addr = 65316 -> Val(BitOr(U8(a.volume_l * 16), a.volume_r), m)
    [] addr = 65317 ->
         Val(Bool(a.square1.panning_r) + 2 * Bool(a.square2.panning_r)
               + 4 * Bool(a.wave.panning_r) + 8 * Bool(a.noise.panning_r)
               + 16 * Bool(a.square1.panning_l) + 32 * Bool(a.square2.panning_l)
               + 64 * Bool(a.wave.panning_l) + 128 * Bool(a.noise.panning_l), m)
    [] addr = 65318 ->
         Val(128 * Bool(a.apu_enabled) + 112
               + Bool(a.square1.enabled) + 2 * Bool(a.square2.enabled)
               + 4 * Bool(a.wave.enabled) + 8 * Bool(a.noise.enabled), m)
    [] addr \in 65296..65300 -> Square_read(m, "square1", addr - 65296)
    [] addr \in 65301..65305 -> Square_read(m, "square2", addr - 65301)
    [] addr \in 65312..65315 -> Noise_read(m, addr)
    [] addr \in 65306..65310 -> Wave_read(m, addr)
    [] addr \in 65328..65343 -> Val(Wave_ram_read(m, addr - 65328), m)
    [] OTHER -> Val(255, m))

\* the panning bits as NR51 or the clearing of NR52 sets them
set_pannings(m, val) ==
  [m EXCEPT !.bus.apu.square1.panning_r = nth_bit(val, 0),
            !.bus.apu.square2.panning_r = nth_bit(val, 1),
            !.bus.apu.wave.panning_r = nth_bit(val, 2),
            !.bus.apu.noise.panning_r = nth_bit(val, 3),
            !.bus.apu.square1.panning_l = nth_bit(val, 4),
            !.bus.apu.square2.panning_l = nth_bit(val, 5),
            !.bus.apu.wave.panning_l = nth_bit(val, 6),
            !.bus.apu.noise.panning_l = nth_bit(val, 7)]

\* Apu::write
Apu_write(m, addr, val) ==
  IF (~m.bus.apu.apu_enabled /\ addr # 65318) \/ m.panic THEN m
  ELSE
  CASE addr = 65316 ->
         [m EXCEPT !.bus.apu.volume_l = ((val \div 16) % 8) + 1,
                   !.bus.apu.volume_r = (val % 8) + 1]
    [] addr = 65317 -> set_pannings(m, val)
    [] addr = 65318 ->
         IF nth_bit(val, 7) THEN [m EXCEPT !.bus.apu.apu_enabled = TRUE]
         ELSE Bind(Square_disable(Square_disable(
                     [m EXCEPT !.bus.apu.apu_enabled = FALSE], "square1"), "square2"),
              LAMBDA m1 :
              Bind(Noise_disable(m1), LAMBDA m2 :
              IF m2.panic THEN m2
              ELSE set_pannings([m2 EXCEPT !.bus.apu.volume_l = 0,
                                           !.bus.apu.volume_r = 0], 0)))
    [] addr \in 65296..65300 -> Square_write(m, "square1", addr - 65296, val)
    [] addr \in 65301..65305 -> Square_write(m, "square2", addr - 65301, val)
    [] addr \in 65312..65315 -> Noise_write(m, addr, val)
    [] addr \in 65306..65310 -> Wave_write(m, addr, val)
    [] addr \in 65328..65343 -> Wave_ram_write(m, addr - 65328, val)
    [] OTHER -> m

(***************************************************************************)
(* The state after construction (Cpu::new, Timer::new, Bus::new)           *)
(***************************************************************************)
Cpu_new ==
  [a |-> 1, f |-> 176, bc |-> 19, de |-> 216, hl |-> 333, sp |-> 65534,
   pc |-> 256, ime |-> FALSE, ime_to_set |-> FALSE, halted |-> FALSE,
   mcycles |-> 0,
   dma |-> [transfering |-> FALSE, start |-> 0, offset |-> 0, start_delay |-> FALSE]]

Timer_new ==
  [div |-> 43980, tima |-> 0, tima_clock |-> 512, tima_overflow_delay |-> 0,
   tima_just_reloaded |-> FALSE, tma |-> 0, tac |-> 0]

Ppu_new ==
  [fetcher |-> Fetcher_new, mode |-> "OamScan", frame_ready |-> FALSE,
   ctrl |-> Ctrl_lcd_enabled, stat |-> 0, vram_enabled |-> FALSE, oam_enabled |-> FALSE,
   ly |-> 0, wnd_line |-> 0, lyc |-> 0, scy |-> 0, scx |-> 0, wy |-> 0, wx |-> 0,
   bgp |-> 0, obp0 |-> 0, obp1 |-> 0, tcycles |-> 0, stat_int_flag |-> FALSE]

Bus_new ==
  [mem |-> [c \in {} |-> 0], inte |-> 0, intf |-> 0,
   dma |-> [start |-> 0, offset |-> 0, delay |-> FALSE],
   cart |-> Cart_new(CartHeader_new(0, 0, 0)),
   joypad |-> Joypad_new, serial |-> Serial_new, apu |-> Apu_default]

Machine ==
  [cpu |-> cpu, bus |-> bus, timer |-> timer, ppu |-> ppu, panic |-> panic, oos |-> oos]

(***************************************************************************)
(* Bounds                                                                  *)
(***************************************************************************)
\* step() calls per run
MaxSteps == 4

\* timer ticks, and register writes among them, per run of the timer
MaxTicks == 8

MaxWrites == 2

\* PPU ticks per run of the PPU: one frame of 154 lines and the start of the next
MaxPpuTicks == 70500

\* halt_tick calls per run of the bus: the start delay and the 160 copies of
\* an OAM DMA, and a few calls more
MaxBusTicks == 166

\* the latest halt_tick count at which the program starts the OAM DMA
MaxDmaStartTick == 1

\* CPU reads and writes of memory per run of the bus
MaxBusOps == 1

\* accesses per run of the cartridge
MaxCartOps == 3

\* register accesses and key events per run of the I/O registers
MaxIoOps == 2

\* PPU ticks per run of the pixel output: the OAM scan and the first pixels
\* of a line
MaxPixelTicks == 100

\* register accesses per run of the APU
MaxApuOps == 3

\* APU ticks per run of the APU: one period of the envelope clock, 65536
\* T-cycles, and a few more
MaxApuTicks == 65540

\* step() calls in one call of step_until_vblank, and calls of it per run
MaxFrameSteps == 17700

MaxFrames == 2

\* step() calls per run of the CPU's OAM DMA: 160 bytes and the start
MaxDmaSteps == 170

(***************************************************************************)
(* The CPU runs a program: the inputs are the cartridge image and the      *)
(* registers, interrupt registers and RAM the program starts from.         *)
(***************************************************************************)
\* the power-on registers, no interrupt enabled or requested, RAM zeroed
Base ==
  [rom |-> <<>>, a |-> 1, f |-> 176, bc |-> 19, de |-> 216, hl |-> 333,
   sp |-> 65534, ime |-> FALSE, inte |-> 0, intf |-> 0, mem |-> Bus_new.mem]

\* registers that point into work RAM, with a stack holding 0x12FF
Alt ==
  [Base EXCEPT !.a = 154, !.bc = 49281, !.de = 53263, !.hl = 49663, !.sp = 57328,
               !.mem = (57328 :> 255) @@ (57329 :> 18)]

\* every opcode once, unprefixed and CB-prefixed, with operand bytes 0x90 0xC0
OpPrograms ==
  {<<op, 144, 192>> : op \in (0..255) \ {203}} \cup {<<203, op>> : op \in 0..255}

OpScenarios ==
  {[r EXCEPT !.rom = p, !.f = f] :
     p \in OpPrograms, r \in {Base, Alt}, f \in {0, 240}}

\* EI, DI, HALT, RETI and writes of IE and IF, under interrupt registers
\* with one, several or no request, bits 7..5 included
IntPrograms ==
  {<<0>>, <<251, 0, 0>>, <<251, 243, 0>>, <<251, 251, 0>>,
   <<243, 118, 60>>, <<118, 60>>, <<217>>,
   <<224, 255, 224, 15, 217>>, <<224, 70, 0, 0>>}

IEValues == {0, 1, 4, 31, 33, 255}

IFValues == {0, 1, 20, 31, 32, 224, 228, 255}

IntScenarios ==
  {[r EXCEPT !.rom = p, !.ime = i, !.inte = e, !.intf = q] :
     p \in IntPrograms, r \in {Alt}, i \in BOOLEAN, e \in IEValues, q \in IFValues}
  \cup {[Alt EXCEPT !.rom = <<224, 255, 224, 15, 217>>, !.a = v] : v \in {4, 33, 224}}

\* LD HL,SP+e and ADD SP,e for every e
SPValues == {0, 15, 255, 4095, 49157, 65534, 65535}

SPScenarios ==
  {[Base EXCEPT !.rom = <<op, e>>, !.sp = v, !.f = f] :
     op \in {232, 248}, e \in 0..255, v \in SPValues, f \in {0, 240}}

\* PUSH rr; POP rr with the stack in work RAM, echo RAM and high RAM
StackValues == {49154, 57328, 65023, 65409, 65534, 65535}

StackScenarios ==
  {[r EXCEPT !.rom = <<op, op - 4>>, !.sp = v, !.f = f] :
     op \in {197, 213, 229, 245}, r \in {Base, Alt}, v \in StackValues,
     f \in {0, 80, 240}}

Scenarios == OpScenarios \cup IntScenarios \cup SPScenarios \cup StackScenarios

Init ==
  \E sc \in Scenarios :
    /\ rom = sc.rom
    /\ cpu = [Cpu_new EXCEPT !.a = sc.a, !.f = sc.f,
                             !.bc = sc.bc, !.de = sc.de, !.hl = sc.hl,
                             !.sp = sc.sp, !.ime = sc.ime]
    /\ bus = [Bus_new EXCEPT !.mem = sc.mem, !.inte = sc.inte, !.intf = sc.intf]
    /\ timer = Timer_new
    /\ ppu = Ppu_new
    /\ panic = FALSE
    /\ oos = FALSE
    /\ steps = 0
    /\ prev = [cpu |-> cpu, bus |-> bus, timer |-> timer, ppu |-> ppu,
            panic |-> FALSE, oos |-> FALSE]
    /\ ev = [kind |-> "init", op |-> 0, mid |-> prev, lastop |-> -1, before |-> prev]

\* one call of Cpu::step
Step ==
  /\ ~panic
  /\ steps < MaxSteps
  /\ \E m \in {Machine} :
       /\ \E t \in {step(m)} :
            /\ cpu' = t.m.cpu
            /\ bus' = t.m.bus
            /\ timer' = t.m.timer
            /\ ppu' = t.m.ppu
            /\ panic' = t.m.panic
            /\ oos' = t.m.oos
            /\ ev' = [kind |-> IF m.cpu.halted THEN "halted" ELSE "instr",
                      op |-> IF m.cpu.halted THEN 0 ELSE peek(m, m.cpu.pc),
                      mid |-> t.mid,
                      lastop |-> IF ev.kind = "instr" THEN ev.op ELSE -1,
                      before |-> prev]
       /\ prev' = m
  /\ steps' = steps + 1
  /\ UNCHANGED rom

Next == Step

Spec == Init /\ [][Next]_vars

TypeOK ==
  /\ cpu.a \in 0..255 /\ cpu.f \in 0..255
  /\ cpu.bc \in 0..65535 /\ cpu.de \in 0..65535 /\ cpu.hl \in 0..65535
  /\ cpu.sp \in 0..65535 /\ cpu.pc \in 0..65535
  /\ bus.inte \in 0..255 /\ bus.intf \in 0..255
  /\ \A c \in DOMAIN bus.mem : bus.mem[c] \in 0..255
  /\ timer.div \in 0..65535 /\ timer.tima \in 0..255

(***************************************************************************)
(* Observations of the last step()                                         *)
(***************************************************************************)
Pending(m) == BitAnd(m.bus.inte, m.bus.intf)

LowestBit(x) == CHOOSE b \in 0..7 : nth_bit(x, b) /\ \A c \in 0..(b - 1) : ~nth_bit(x, c)

IsRam(addr) == map_addr(addr) \in {"VRam", "WRam", "Oam", "HRam"}

\* the last step() executed an instruction and reached its interrupt check
\* with IME set and a request pending
AtCheck ==
  /\ ev.kind = "instr"
  /\ ~ev.mid.cpu.ime_to_set
  /\ ev.mid.cpu.ime
  /\ Pending(ev.mid) # 0

\* the last step() dispatched an interrupt: after its instruction it pushed
\* two bytes, went to a vector and spent cycles doing so
Dispatched ==
  /\ ev.kind = "instr"
  /\ ~panic
  /\ cpu.pc \in {64, 72, 80, 88, 96}
  /\ cpu.sp = U16(ev.mid.cpu.sp + 65534)
  /\ cpu.mcycles > ev.mid.cpu.mcycles

\* M-cycles of the instruction of the last step(), and of its dispatch
InstrCycles == ev.mid.cpu.mcycles - prev.cpu.mcycles

DispatchCycles == cpu.mcycles - ev.mid.cpu.mcycles

(***************************************************************************)
(* Claims                                                                  *)
(***************************************************************************)
\* C1: whenever step() reaches its interrupt check with IME=1 and IE & IF
\* non-zero, the lowest set bit of IE & IF is serviced: IME becomes 0, that
\* bit alone is cleared in IF, PC is pushed and PC becomes 0x40 + 8 * bit.
C1_LowestPendingServiced ==
  AtCheck =>
    LET b == LowestBit(Pending(ev.mid))
        sp == U16(ev.mid.cpu.sp + 65534)
    IN  /\ ~panic
        /\ b <= 4
        /\ ~cpu.ime
        /\ bus.intf = ev.mid.bus.intf - (2 ^ b)
        /\ cpu.pc = 64 + (8 * b)
        /\ cpu.sp = sp
        /\ (IsRam(sp) /\ IsRam(U16(sp + 1))) =>
             /\ peek(Machine, sp) = lo(ev.mid.cpu.pc)
             /\ peek(Machine, U16(sp + 1)) = hi(ev.mid.cpu.pc)

\* C2: IME is still 0 when the step() that executed EI (with IME 0) returns
C2_ImeClearAfterEi ==
  (ev.kind = "instr" /\ ev.op = 251 /\ ~prev.cpu.ime) => ~cpu.ime

\* C3: an interrupt enabled and pending when EI executes with IME 0 is not
\* dispatched by the step() of EI; the step() of the next instruction
\* dispatches it, unless that instruction is DI, and then it does not.
C3_DispatchOneInstructionAfterEi ==
  /\ (ev.kind = "instr" /\ ev.op = 251 /\ ~prev.cpu.ime) => ~Dispatched
  /\ ( /\ ev.kind = "instr"
       /\ ev.lastop = 251
       /\ ~ev.before.cpu.ime
       /\ Pending(ev.before) # 0 )
     => IF ev.op = 243 THEN ~Dispatched
        ELSE (Pending(ev.mid) # 0 => Dispatched)

\* C4: HALT executed with IME=0 and IE & IF non-zero does not halt the CPU,
\* and DI; HALT; INC A with an interrupt pending leaves A two higher after
\* three steps.
C4_HaltBug ==
  /\ (ev.kind = "instr" /\ ev.op = 118 /\ ~ev.mid.cpu.ime /\ Pending(ev.mid) # 0)
       => ~cpu.halted
  /\ (rom = <<243, 118, 60>> /\ steps = 3 /\ Pending(Machine) # 0)
       => cpu.a = U8(Alt.a + 2)

\* the published T-cycles of the stack and control-flow opcodes, by opcode
\* and by whether the condition held
Published(op, taken) ==
  CASE op \in {197, 213, 229, 245} -> 16
    [] op \in {193, 209, 225, 241} -> 12
    [] op = 195 -> 16
    [] op = 24 -> 12
    [] op = 205 -> 24
    [] op \in {201, 217} -> 16
    [] op \in {199, 207, 215, 223, 231, 239, 247, 255} -> 16
    [] op \in {194, 202, 210, 218} -> IF taken THEN 16 ELSE 12
    [] op \in {32, 40, 48, 56} -> IF taken THEN 12 ELSE 8
    [] op \in {196, 204, 212, 220} -> IF taken THEN 24 ELSE 12
    [] op \in {192, 200, 208, 216} -> IF taken THEN 20 ELSE 8

ControlFlowOps ==
  {197, 213, 229, 245, 193, 209, 225, 241, 195, 24, 205, 201, 217,
   199, 207, 215, 223, 231, 239, 247, 255, 194, 202, 210, 218,
   32, 40, 48, 56, 196, 204, 212, 220, 192, 200, 208, 216}

\* the condition of a conditional opcode, under the flags before it
Taken(op, f) ==
  LET y == (op \div 8) % 4
  IN  CASE y = 0 -> ~Contains(f, Flags_z)
        [] y = 1 -> Contains(f, Flags_z)
        [] y = 2 -> ~Contains(f, Flags_c)
        [] y = 3 -> Contains(f, Flags_c)

\* C5: the stack and control-flow instructions take their published
\* T-cycles (4 per M-cycle)
C5_ControlFlowCycles ==
  (ev.kind = "instr" /\ ev.op \in ControlFlowOps)
    => 4 * InstrCycles = Published(ev.op, Taken(ev.op, prev.cpu.f))

\* C6: servicing an interrupt takes 20 T-cycles
C6_DispatchCycles == Dispatched => 4 * DispatchCycles = 20

\* C7: bits 3..0 of F are zero after every step()
C7_FlagsLowNibbleZero == cpu.f % 16 = 0

\* POP AF has read a byte with a non-zero low nibble into F
C7_Witness ==
  /\ ev.kind = "instr"
  /\ ev.op = 241
  /\ peek(prev, prev.cpu.sp) % 16 # 0

\* the register pair a PUSH/POP opcode names, as the 16-bit value it holds
Pair(m, op) ==
  CASE op \in {193, 197} -> m.cpu.bc
    [] op \in {209, 213} -> m.cpu.de
    [] op \in {225, 229} -> m.cpu.hl
    [] op \in {241, 245} -> af(m)

\* the last two steps were PUSH rr and then, at the next address, POP rr,
\* and the two bytes below the SP before the PUSH are RAM
PushThenPop ==
  /\ ev.kind = "instr"
  /\ ev.op \in {193, 209, 225, 241}
  /\ ev.lastop = ev.op + 4
  /\ prev.cpu.pc = U16(ev.before.cpu.pc + 1)
  /\ IsRam(U16(ev.before.cpu.sp + 65535))
  /\ IsRam(U16(ev.before.cpu.sp + 65534))

\* C8: PUSH rr; POP rr leaves rr and SP as they were before the PUSH (for
\* AF, with the low nibble of F zero)
C8_PushPopRoundTrip ==
  PushThenPop =>
    /\ ev.mid.cpu.sp = ev.before.cpu.sp
    /\ Pair(ev.mid, ev.op) =
         IF ev.op = 241
         THEN (ev.before.cpu.a * 256) + BitAnd(ev.before.cpu.f, 240)
         ELSE Pair(ev.before, ev.op)

\* PUSH AF; POP AF has run with all four flags set and the stack in RAM
C8_Witness ==
  /\ PushThenPop
  /\ ev.op = 241
  /\ ev.before.cpu.f = 240
  /\ ev.before.cpu.a = 154

\* C9: LD HL,SP+e and ADD SP,e give SP + e (e sign-extended) modulo 2^16,
\* Z = 0, N = 0, H from the low nibbles and C from the low bytes, e taken
\* as an unsigned byte
C9_SpOffsetFlags ==
  (ev.kind = "instr" /\ ev.op \in {232, 248}) =>
    LET sp == prev.cpu.sp
        e == peek(prev, U16(prev.cpu.pc + 1))
        result == IF ev.op = 248 THEN ev.mid.cpu.hl ELSE ev.mid.cpu.sp
    IN  /\ result = U16(sp + I8(e) + 65536)
        /\ ~Contains(ev.mid.cpu.f, Flags_z)
        /\ ~Contains(ev.mid.cpu.f, Flags_n)
        /\ Contains(ev.mid.cpu.f, Flags_h) <=> ((sp % 16) + (e % 16) > 15)
        /\ Contains(ev.mid.cpu.f, Flags_c) <=> ((sp % 256) + e > 255)

(***************************************************************************)
(* The timer on its own: Timer::tick once per T-cycle, Timer::write when   *)
(* the CPU stores to DIV, TIMA, TMA or TAC.                                *)
(***************************************************************************)
TimerTacValues == {1, 4, 5, 6, 7}

TimerDivValues == {14, 15, 1022, 43980, 65534}

TimerWriteValues == {0, 5, 255}

\* the timer with its registers written and DIV having run for a while
TimerInit ==
  /\ \E t \in TimerTacValues, a \in {254, 255}, r \in {0, 80}, d \in TimerDivValues :
       timer = [Timer_new EXCEPT !.tac = t, !.tima_clock = tima_clock_bit(t),
                                 !.tima = a, !.tma = r, !.div = d]
  /\ \E q \in {0, IFlags_timer} : bus = [Bus_new EXCEPT !.intf = q]
  /\ cpu = Cpu_new
  /\ ppu = Ppu_new
  /\ rom = <<>>
  /\ panic = FALSE
  /\ oos = FALSE
  /\ steps = 0
  /\ prev = [cpu |-> cpu, bus |-> bus, timer |-> timer, ppu |-> ppu,
            panic |-> FALSE, oos |-> FALSE]
  /\ ev = [kind |-> "init", since |-> -1, ifbit |-> FALSE, writes |-> 0,
           addr |-> 0, wsince |-> -1, wval |-> 0, pend |-> -1, stores |-> {}]

\* this tick will increment TIMA: the timer is enabled and the selected
\* DIV bit falls
Increments(m) ==
  /\ Contains(m.timer.tac, Timer_enable)
  /\ Contains(m.timer.div, m.timer.tima_clock)
  /\ ~Contains((m.timer.div + 1) % 65536, m.timer.tima_clock)

\* one T-cycle; ev.since counts the ticks since an increment took TIMA
\* from 0xFF to 0x00 with no store since, ev.pend counts them with no store
\* to TIMA since, ev.stores holds the registers stored to meanwhile;
\* ev.since counts the ticks since an increment took TIMA
\* from 0xFF to 0x00 (-1: none under observation), ev.ifbit holds the
\* TIMER bit of IF as it was at that increment
TimerTick ==
  /\ steps < MaxTicks
  /\ LET m == Machine
         n == Timer_tick(m)
         overflow == Increments(m) /\ n.timer.tima = 0
     IN  /\ timer' = n.timer
         /\ bus' = n.bus
         /\ prev' = m
         /\ ev' = [kind |-> "tick",
                   since |-> IF overflow THEN 0
                             ELSE IF ev.since \in 0..3 THEN ev.since + 1
                             ELSE -1,
                   ifbit |-> IF overflow THEN Contains(m.bus.intf, IFlags_timer)
                             ELSE ev.ifbit,
                   writes |-> ev.writes,
                   addr |-> 0,
                   wsince |-> IF ev.wsince \in 0..3 THEN ev.wsince + 1 ELSE -1,
                   wval |-> ev.wval,
                   pend |-> IF overflow THEN 0
                            ELSE IF ev.pend \in 0..3 THEN ev.pend + 1
                            ELSE -1,
                   stores |-> IF overflow THEN {} ELSE ev.stores]
  /\ steps' = steps + 1
  /\ UNCHANGED <<cpu, ppu, rom, panic, oos>>

\* a store to a timer register between two ticks
TimerWrite ==
  /\ ev.writes < MaxWrites
  /\ \E addr \in 65284..65287, val \in TimerWriteValues :
       LET m == Machine
           n == Timer_write(m, addr, val)
           overflow == /\ addr = 65284
                       /\ Contains(m.timer.tac, Timer_enable)
                       /\ Contains(m.timer.div, m.timer.tima_clock)
                       /\ m.timer.tima = 255
           cancel == addr = 65285 /\ ev.since \in 0..3
       IN  /\ timer' = n.timer
           /\ bus' = n.bus
           /\ prev' = m
           /\ ev' = [kind |-> "write",
                     since |-> IF overflow THEN 0 ELSE -1,
                     ifbit |-> IF overflow THEN Contains(m.bus.intf, IFlags_timer)
                               ELSE ev.ifbit,
                     writes |-> ev.writes + 1,
                     addr |-> addr,
                     wsince |-> IF cancel THEN ev.since ELSE -1,
                     wval |-> IF cancel THEN val ELSE 0,
                     pend |-> IF overflow THEN 0
                              ELSE IF addr = 65285 THEN -1
                              ELSE ev.pend,
                     stores |-> IF overflow \/ addr = 65285 \/ ev.pend = -1
                                THEN {} ELSE ev.stores \cup {addr}]
  /\ UNCHANGED <<cpu, ppu, rom, panic, oos, steps>>

TimerNext == TimerTick \/ TimerWrite

TimerSpec == TimerInit /\ [][TimerNext]_vars

\* C10: after an increment takes TIMA from 0xFF to 0x00, TIMA reads 0x00
\* and the TIMER bit of IF is untouched until the fourth T-cycle after it;
\* at the fourth, TIMA holds TMA and the TIMER bit of IF is set.
C10_OverflowReloadDelay ==
  /\ ev.since \in 0..3 =>
       /\ Timer_read(Machine, 65285) = 0
       /\ timer.tima_overflow_delay = 4 - ev.since
       /\ Contains(bus.intf, IFlags_timer) = ev.ifbit
  /\ ev.since = 4 =>
       /\ Timer_read(Machine, 65285) = timer.tma
       /\ timer.tima_just_reloaded
       /\ Contains(bus.intf, IFlags_timer)

\* the fourth tick after an overflow has reloaded TIMA from a non-zero TMA
\* and raised the TIMER bit that was clear before
C10_Witness ==
  /\ ev.kind = "tick"
  /\ ev.since = 4
  /\ ~ev.ifbit
  /\ timer.tma = 80
  /\ timer.tima = 80
  /\ Contains(bus.intf, IFlags_timer)

\* C11: a store to TIMA during the reload delay cancels the reload and the
\* interrupt: from the store until the delay would have expired (the fourth
\* T-cycle after the overflow) TIMA holds the stored value and the TIMER bit
\* of IF is as it was at the overflow.
C11_TimaWriteCancelsReload ==
  ev.wsince \in 0..4 =>
    /\ timer.tima = ev.wval
    /\ Contains(bus.intf, IFlags_timer) = ev.ifbit

\* the delay of an overflow has run out after a store of 5 to TIMA, with TMA
\* 0x50 and the TIMER bit clear at the overflow
C11_Witness ==
  /\ ev.kind = "tick"
  /\ ev.wsince = 4
  /\ ev.wval = 5
  /\ timer.tma = 80
  /\ ~ev.ifbit

\* C37: once TIMA has overflowed, only a store to TIMA cancels the reload
\* and the interrupt: with no store to TIMA since the overflow, whatever was
\* stored to DIV, TMA or TAC meanwhile, the fourth T-cycle after it loads
\* TIMA from TMA and sets the TIMER bit of IF.
C37_OnlyTimaWriteCancels ==
  (ev.kind = "tick" /\ ev.pend = 4) =>
    /\ timer.tima_just_reloaded
    /\ timer.tima = timer.tma
    /\ Contains(bus.intf, IFlags_timer)

\* the timer's clock input: the DIV bit TAC selects and the enable bit
ClockInput(m) ==
  /\ Contains(m.timer.tac, Timer_enable)
  /\ BitAnd(m.timer.div, tima_clock_bit(m.timer.tac)) # 0

\* C12: a falling edge of the clock input increments TIMA once, whether a
\* store to TAC, a store to DIV or DIV counting causes it.
C12_TacFallingEdge ==
  ( /\ ev.kind = "tick" \/ (ev.kind = "write" /\ ev.addr \in {65284, 65287})
    /\ ClockInput(prev)
    /\ ~ClockInput(Machine) )
  => timer.tima = U8(prev.timer.tima + 1)

\* C13: a tick with the enable bit of TAC clear leaves TIMA as it was
C13_DisabledTimaUnchanged ==
  (ev.kind = "tick" /\ ~Contains(prev.timer.tac, Timer_enable))
    => timer.tima = prev.timer.tima

\* the registers a program has set up before the frame starts: STAT, LYC,
\* SCX, LCDC (LCD on, window on or off), WY and WX
PpuSetups ==
  { [stat |-> 0, lyc |-> 0, scx |-> 0, ctrl |-> 128, wy |-> 0, wx |-> 0],
    [stat |-> 80, lyc |-> 0, scx |-> 5, ctrl |-> 128, wy |-> 0, wx |-> 0],
    [stat |-> 72, lyc |-> 1, scx |-> 7, ctrl |-> 160, wy |-> 1, wx |-> 3],
    [stat |-> 120, lyc |-> 144, scx |-> 0, ctrl |-> 160, wy |-> 0, wx |-> 87],
    [stat |-> 64, lyc |-> 154, scx |-> 0, ctrl |-> 128, wy |-> 0, wx |-> 0],
    [stat |-> 64, lyc |-> 200, scx |-> 0, ctrl |-> 128, wy |-> 0, wx |-> 0] }

\* Ppu::new followed by the register writes of a setup
PpuInit ==
  /\ \E s \in PpuSetups :
       \E n \in {Ppu_write(Ppu_write(Ppu_write(Ppu_write(Ppu_write(Ppu_write(
                   [ppu |-> Ppu_new, bus |-> Bus_new],
                   65344, s.ctrl), 65345, s.stat), 65347, s.scx),
                   65354, s.wy), 65355, s.wx), 65349, s.lyc)} :
         /\ ppu = n.ppu
         /\ bus = n.bus
  /\ cpu = Cpu_new
  /\ timer = Timer_new
  /\ rom = <<>>
  /\ panic = FALSE
  /\ oos = FALSE
  /\ steps = 0
  /\ prev = [cpu |-> cpu, bus |-> bus, timer |-> timer, ppu |-> ppu,
            panic |-> FALSE, oos |-> FALSE]
  /\ ev = [kind |-> "init", line_ticks |-> 0, frame_ticks |-> 0,
           mode_ticks |-> 0, last_len |-> 0, lines |-> 0, line_len |-> 0,
           frame_len |-> 0, ended |-> "none", vbl |-> 0]

\* one Ppu::tick; ev counts the ticks since LY last changed (line_ticks),
\* since LY last became 0 (frame_ticks) and since the mode last changed
\* (mode_ticks), holds the mode that ended last (ended), the length in
\* ticks of the mode, the line and the frame that ended last (last_len,
\* line_len, frame_len) and counts the changes of LY (lines) and the
\* times the VBLANK bit of IF went from 0 to 1 since LY last became 0 (vbl)
PpuTick ==
  /\ steps < MaxPpuTicks
  /\ \E m \in {Machine} :
       \E n \in {Ppu_tick(m)} :
         /\ ppu' = n.ppu
         /\ bus' = n.bus
         /\ prev' = m
         /\ ev' = [kind |-> "tick",
                   line_ticks |-> IF n.ppu.ly # m.ppu.ly THEN 0 ELSE ev.line_ticks + 1,
                   frame_ticks |-> IF n.ppu.ly # m.ppu.ly /\ n.ppu.ly = 0 THEN 0
                                   ELSE ev.frame_ticks + 1,
                   mode_ticks |-> IF n.ppu.mode # m.ppu.mode THEN 0
                                  ELSE ev.mode_ticks + 1,
                   last_len |-> IF n.ppu.mode # m.ppu.mode THEN ev.mode_ticks + 1
                                ELSE ev.last_len,
                   lines |-> IF n.ppu.ly # m.ppu.ly THEN ev.lines + 1 ELSE ev.lines,
                   line_len |-> IF n.ppu.ly # m.ppu.ly THEN ev.line_ticks + 1
                                ELSE ev.line_len,
                   frame_len |-> IF n.ppu.ly # m.ppu.ly /\ n.ppu.ly = 0
                                 THEN ev.frame_ticks + 1 ELSE ev.frame_len,
                   ended |-> IF n.ppu.mode # m.ppu.mode THEN m.ppu.mode ELSE ev.ended,
                   vbl |-> (IF n.ppu.ly # m.ppu.ly /\ n.ppu.ly = 0 THEN 0 ELSE ev.vbl)
                           + (IF /\ ~Contains(m.bus.intf, IFlags_vblank)
                                 /\ Contains(n.bus.intf, IFlags_vblank)
                              THEN 1 ELSE 0)]
  /\ steps' = steps + 1
  /\ UNCHANGED <<cpu, timer, rom, panic, oos>>

\* the CPU acknowledges the interrupts requested so far: a store of 0 to IF
IfAck ==
  /\ bus.intf # 0
  /\ \E m \in {Machine} :
       /\ bus' = Bus_write(m, 65295, 0).bus
       /\ prev' = m
  /\ ev' = [ev EXCEPT !.kind = "ack"]
  /\ UNCHANGED <<cpu, timer, ppu, rom, panic, oos, steps>>

PpuNext == PpuTick \/ IfAck

PpuSpec == PpuInit /\ [][PpuNext]_vars

\* C39: with the LYC source the only STAT source enabled and LYC at 154 or
\* more, no tick of the PPU sets the LCD bit of IF
C39_LycOutOfRange ==
  ( /\ ev.kind = "tick"
    /\ BitAnd(prev.ppu.stat, 120) = 64
    /\ prev.ppu.lyc >= 154 )
  => (Contains(bus.intf, IFlags_lcd) => Contains(prev.bus.intf, IFlags_lcd))

\* C14: with the LCD on, LY takes the values 0..153 in order, changes once
\* every 456 PPU ticks and returns to 0 after 154 * 456 = 70224 ticks
C14_LyPeriod ==
  /\ ppu.ly \in 0..153
  /\ ppu.ly = ev.lines % 154
  /\ ev.lines > 0 => ev.line_len = 456
  /\ ev.lines >= 154 => ev.frame_len = 70224

\* C15: on a visible line the PPU is in mode 2 for 80 ticks, then in mode 3
\* for between 172 and 289 ticks, then in mode 0 until the line ends, in
\* that order
C15_ModeSequence ==
  /\ ev.ended = "OamScan" => ev.last_len = 80 /\ ppu.mode = "DrawingPixels"
  /\ ev.ended = "DrawingPixels" => ev.last_len \in 172..289 /\ ppu.mode = "Hblank"
  /\ ev.ended = "Hblank" => ppu.mode \in {"OamScan", "Vblank"}
  /\ (ppu.ly \in 0..143 /\ ev.line_ticks < 80 /\ ppu.mode # "Vblank") => ppu.mode = "OamScan"

\* C16: the PPU is in mode 1 exactly while 144 <= LY <= 153, and the VBLANK
\* bit of IF is raised once per frame, by the tick that enters mode 1
C16_VblankMode ==
  /\ (ppu.mode = "Vblank") <=> (ppu.ly \in 144..153)
  /\ ( /\ ev.kind = "tick"
       /\ ~Contains(prev.bus.intf, IFlags_vblank)
       /\ Contains(bus.intf, IFlags_vblank) )
     => (prev.ppu.mode # "Vblank" /\ ppu.mode = "Vblank")
  /\ (ev.kind = "tick" /\ prev.ppu.mode # "Vblank" /\ ppu.mode = "Vblank")
     => Contains(bus.intf, IFlags_vblank)
  /\ ev.vbl <= 1

\* C17: a tick sets the LCD bit of IF only when the OR of the enabled STAT
\* sources goes from false to true; while the OR stays true no new
\* interrupt is raised
C17_StatRisingEdge ==
  ( /\ ev.kind = "tick"
    /\ ~Contains(prev.bus.intf, IFlags_lcd)
    /\ Contains(bus.intf, IFlags_lcd) )
  => (~stat_line(prev) /\ stat_line(Machine))

\* the byte the program has put at offset i of each OAM DMA source page
SourceByte(i) == (i * 7 + 1) % 256

\* the source pages of the OAM DMA: the cartridge image at 0x0100 and work
\* RAM at 0xC000
DmaPages == {1, 192}

\* the addresses the CPU reads and writes: cartridge ROM, VRAM, work RAM,
\* OAM and HRAM
BusAddrs == {256, 32768, 49152, 65024, 65408}

\* Bus::new, with a cartridge image and a work RAM page that hold the source
\* bytes and an HRAM byte the program has stored
BusInit ==
  /\ rom = [i \in 1..160 |-> SourceByte(i - 1)]
  /\ bus = [Bus_new EXCEPT !.mem = [c \in (49152..49311) \cup {65408} |->
                                      IF c = 65408 THEN 52 ELSE SourceByte(c - 49152)]]
  /\ ppu = Ppu_new
  /\ timer = Timer_new
  /\ cpu = Cpu_new
  /\ panic = FALSE
  /\ oos = FALSE
  /\ steps = 0
  /\ prev = [cpu |-> cpu, bus |-> bus, timer |-> timer, ppu |-> ppu,
            panic |-> FALSE, oos |-> FALSE]
  /\ ev = [kind |-> "init", addr |-> 0, val |-> 0, rval |-> 0, calls |-> 0,
           clean |-> TRUE, dmas |-> 0, ops |-> 0]

\* the program starts an OAM DMA: Bus::write of a source page to 0xFF46
DmaStart ==
  /\ ev.dmas = 0
  /\ steps <= MaxDmaStartTick
  /\ \E v \in DmaPages :
       \E m \in {Machine} :
         \E n \in {Bus_write(m, 65350, v)} :
           /\ bus' = n.bus
           /\ ppu' = n.ppu
           /\ timer' = n.timer
           /\ oos' = n.oos
           /\ prev' = m
           /\ ev' = [ev EXCEPT !.kind = "dma", !.addr = 65350, !.val = v,
                               !.calls = 0, !.clean = TRUE, !.dmas = 1]
  /\ UNCHANGED <<cpu, rom, panic, steps>>

\* one Bus::halt_tick: Bus::tick, then Bus::handle_dma; ev.calls counts the
\* handle_dma calls since the DMA was started
HaltTick ==
  /\ steps < MaxBusTicks
  /\ \E m \in {Machine} :
       \E n \in {halt_tick(m)} :
         /\ bus' = n.bus
         /\ ppu' = n.ppu
         /\ timer' = n.timer
         /\ oos' = n.oos
         /\ prev' = m
  /\ ev' = [ev EXCEPT !.kind = "halt",
                      !.calls = IF ev.dmas > 0 THEN @ + 1 ELSE 0]
  /\ steps' = steps + 1
  /\ UNCHANGED <<cpu, rom, panic>>

\* a CPU read: Bus::read; ev.rval is the byte it returns
BusRead ==
  /\ ev.ops < MaxBusOps
  /\ \E a \in BusAddrs :
       \E m \in {Machine} :
         /\ prev' = m
         /\ ev' = [ev EXCEPT !.kind = "read", !.addr = a,
                             !.rval = Bus_read(m, a), !.ops = @ + 1]
  /\ UNCHANGED <<cpu, bus, timer, ppu, rom, panic, oos, steps>>

\* a CPU write: Bus::write; ev.clean records that no CPU write has happened
\* since the DMA was started
BusWrite ==
  /\ ev.ops < MaxBusOps
  /\ \E a \in BusAddrs :
       \E m \in {Machine} :
         \E n \in {Bus_write(m, a, 18)} :
           /\ bus' = n.bus
           /\ ppu' = n.ppu
           /\ timer' = n.timer
           /\ oos' = n.oos
           /\ prev' = m
           /\ ev' = [ev EXCEPT !.kind = "write", !.addr = a, !.val = 18,
                               !.clean = FALSE, !.ops = @ + 1]
  /\ UNCHANGED <<cpu, rom, panic, steps>>

BusNext == DmaStart \/ HaltTick \/ BusRead \/ BusWrite

BusSpec == BusInit /\ [][BusNext]_vars

\* the CPU's access to addr falls in a mode that gates it: OAM in modes 2
\* and 3, VRAM in mode 3, with the LCD on
Gated(m, addr) ==
  /\ is_lcd_enabled(m)
  /\ \/ map_addr(addr) = "Oam" /\ m.ppu.mode \in {"OamScan", "DrawingPixels"}
     \/ map_addr(addr) = "VRam" /\ m.ppu.mode = "DrawingPixels"

\* C18: with the LCD on, a CPU read of OAM in mode 2 or 3 and of VRAM in
\* mode 3 returns 0xFF, and a CPU write there leaves the memory unchanged
C18_ModeGatedAccess ==
  /\ (ev.kind = "read" /\ Gated(prev, ev.addr)) => ev.rval = 255
  /\ (ev.kind = "write" /\ Gated(prev, ev.addr))
     => Load(Machine, ev.addr) = Load(prev, ev.addr)

\* C19: after a write of V to 0xFF46 the first handle_dma call copies
\* nothing, each of the next 160 calls copies one byte, OAM[i] becoming the
\* byte read from (V << 8) + i, after which OAM holds the 160 source bytes
\* and no transfer is in progress, and further calls copy nothing
C19_DmaCopies160 ==
  (ev.kind = "halt" /\ ev.dmas > 0) =>
    /\ ev.calls = 1 =>
         /\ \A i \in 0..159 : Load(Machine, 65024 + i) = Load(prev, 65024 + i)
         /\ BusDma_is_transferring(Machine)
    /\ ev.calls \in 2..161 =>
         \A i \in 0..159 :
           Load(Machine, 65024 + i) =
             IF i = ev.calls - 2
             THEN Bus_read(Bus_tick(prev), (bus.dma.start + i) % 65536)
             ELSE Load(prev, 65024 + i)
    /\ ev.calls \in 1..160 => BusDma_is_transferring(Machine)
    /\ ev.calls >= 161 => ~BusDma_is_transferring(Machine)
    /\ (ev.calls = 161 /\ ev.clean) =>
         \A i \in 0..159 :
           Load(Machine, 65024 + i) = Bus_read(Machine, (bus.dma.start + i) % 65536)
    /\ ev.calls > 161 => bus = prev.bus

C19_Witness ==
  /\ ev.kind = "halt"
  /\ ev.calls = 161
  /\ ev.clean
  /\ bus.dma.start = 49152
  /\ Load(Machine, 65024) = SourceByte(0)
  /\ Load(Machine, 65024 + 159) = SourceByte(159)
  /\ ~BusDma_is_transferring(Machine)

\* a DMA transfer is in progress: from the write to 0xFF46 until the 160th
\* byte has been copied
DmaInProgress(m) == BusDma_is_transferring(m)

\* the contents stored at addr: the cartridge image or the RAM cell
Stored(m, addr) ==
  IF map_addr(addr) = "Rom" THEN rom_read(addr) ELSE Load(m, addr)

\* C20: while an OAM DMA transfer is in progress a CPU read outside HRAM
\* does not return the contents stored at the address, and HRAM reads and
\* writes behave as without a transfer
C20_DmaBusConflict ==
  /\ (ev.kind = "read" /\ DmaInProgress(prev) /\ map_addr(ev.addr) # "HRam")
     => ev.rval # Stored(prev, ev.addr)
  /\ (ev.kind = "read" /\ DmaInProgress(prev) /\ map_addr(ev.addr) = "HRam")
     => ev.rval = Stored(prev, ev.addr)
  /\ (ev.kind = "write" /\ DmaInProgress(prev) /\ map_addr(ev.addr) = "HRam")
     => Stored(Machine, ev.addr) = ev.val

\* C21: every bus access of the CPU advances the PPU and the timer by the
\* same number of T-cycles: the dots counted since power-on equal the
\* count DIV has made since power-on
C21_LockStep ==
  (~panic /\ ~oos /\ ev.kind # "init") =>
    ppu.tcycles = (timer.div - Timer_new.div) % 65536

\* every bit of IF that was set before is set after
Kept(before, after) == BitAnd(before, after) = before

\* the addresses an instruction at pc can write to: through HL, BC, DE, C,
\* its immediate operand, or the stack
WriteTargets(m) ==
  {m.cpu.hl, m.cpu.bc, m.cpu.de, 65280 + (m.cpu.bc % 256),
   65280 + peek(m, U16(m.cpu.pc + 1)),
   peek(m, U16(m.cpu.pc + 1)) + (256 * peek(m, U16(m.cpu.pc + 2))),
   U16(peek(m, U16(m.cpu.pc + 1)) + (256 * peek(m, U16(m.cpu.pc + 2))) + 1),
   U16(m.cpu.sp + 65535), U16(m.cpu.sp + 65534)}

\* the addresses a dispatch pushes the return address to
PushTargets(m) == {U16(m.cpu.sp + 65535), U16(m.cpu.sp + 65534)}

C30_HaltedStep ==
  (ev.kind = "halted" /\ ~panic) =>
    /\ Pending(prev) = 0 =>
         /\ cpu.halted
         /\ cpu.pc = prev.cpu.pc
         /\ ppu.tcycles = prev.ppu.tcycles + 1
    /\ Pending(prev) # 0 =>
         /\ ~cpu.halted
         /\ cpu.mcycles > prev.cpu.mcycles

\* C31: STOP (0x10) advances PC by 2, resets DIV to 0 and changes no other
\* CPU register or flag
C31_Stop ==
  (ev.kind = "instr" /\ ev.op = 16 /\ ~panic) =>
    /\ ev.mid.cpu.pc = U16(prev.cpu.pc + 2)
    /\ ev.mid.timer.div = 0
    /\ ev.mid.cpu.a = prev.cpu.a /\ ev.mid.cpu.f = prev.cpu.f
    /\ ev.mid.cpu.bc = prev.cpu.bc /\ ev.mid.cpu.de = prev.cpu.de
    /\ ev.mid.cpu.hl = prev.cpu.hl /\ ev.mid.cpu.sp = prev.cpu.sp
    /\ ev.mid.cpu.ime = prev.cpu.ime /\ ev.mid.cpu.halted = prev.cpu.halted

\* C36: a step() that reaches its interrupt check with IME = 1 does not
\* panic: it dispatches one of the five vectors or it dispatches nothing
C36_NoUnreachable ==
  (ev.kind = "instr" /\ ~ev.mid.panic /\ ev.mid.cpu.ime /\ ~ev.mid.cpu.ime_to_set) =>
    /\ ~panic
    /\ Dispatched \/ (cpu = ev.mid.cpu /\ bus = ev.mid.bus)

(***************************************************************************)
(* The cartridge on its own: a cartridge of each mapper, ROM size and RAM  *)
(* size, and the accesses the bus hands to it: Cart::rom_write and         *)
(* Cart::rom_read of 0x0000..0x7FFF, Cart::ram_read and Cart::ram_write of *)
(* 0xA000..0xBFFF (the bus passes the offset from 0xA000).                 *)
(***************************************************************************)
\* the headers: MBC1 (type 0x02) with each ROM size, without RAM and with
\* four banks of it; ROM ONLY (0x00) with 2 ROM banks, MBC2 (0x05) with 16,
\* MBC3 (0x13) with 128 and MBC5 (0x19) with 512, each without RAM and with
\* one bank of it
CartHeaders ==
  {CartHeader_new(2, rom_id, ram_id) : rom_id \in DOMAIN ROM_SIZE_MAP, ram_id \in {0, 3}}
    \cup {CartHeader_new(h[1], h[2], ram_id) :
             h \in {<<0, 0>>, <<5, 3>>, <<19, 6>>, <<25, 8>>}, ram_id \in {0, 2}}

\* the control registers written: RAM enable, the ROM bank registers (0x2100
\* has address bit 8 set, 0x3000 is the high register of MBC5), the RAM bank
\* register, the banking mode
CartWriteAddrs == {0, 8192, 8448, 12288, 16384, 24576}

CartVals == {0, 1, 4, 8, 10, 16}

CartReadAddrs == {16383, 16384}

\* offsets in 0xA000..0xBFFF
CartRamAddrs == {0, 8191}

CartInit ==
  /\ \E header \in CartHeaders : bus = [Bus_new EXCEPT !.cart = Cart_new(header)]
  /\ rom = <<>>
  /\ ppu = Ppu_new
  /\ timer = Timer_new
  /\ cpu = Cpu_new
  /\ panic = FALSE
  /\ oos = FALSE
  /\ steps = 0
  /\ prev = [cpu |-> cpu, bus |-> bus, timer |-> timer, ppu |-> ppu,
            panic |-> FALSE, oos |-> FALSE]
  /\ ev = [kind |-> "init", addr |-> 0, val |-> 0, rval |-> 0, index |-> 0,
           lo |-> -1, hi |-> -1]

\* a write to 0x0000..0x7FFF: Cart::rom_write; ev.lo and ev.hi are the last
\* bytes written to 0x2000..0x2FFF and to 0x3000..0x3FFF
RomWrite ==
  /\ steps < MaxCartOps
  /\ ~panic
  /\ \E a \in CartWriteAddrs, v \in CartVals :
       \E m \in {Machine} :
         \E n \in {Cart_rom_write(m, a, v)} :
           /\ bus' = n.bus
           /\ panic' = n.panic
           /\ prev' = m
           /\ ev' = [ev EXCEPT !.kind = "rom_write", !.addr = a, !.val = v,
                               !.rval = 0, !.index = 0,
                               !.lo = IF a >= 8192 /\ a <= 12287 THEN v ELSE @,
                               !.hi = IF a >= 12288 /\ a <= 16383 THEN v ELSE @]
  /\ steps' = steps + 1
  /\ UNCHANGED <<cpu, timer, ppu, rom, oos>>

\* a read of 0x0000..0x7FFF: Cart::rom_read; ev.index is the index in the
\* image the mapper gives, ev.rval the byte read
RomRead ==
  /\ steps < MaxCartOps
  /\ ~panic
  /\ \E a \in CartReadAddrs :
       \E m \in {Machine} :
         \E r \in {Cart_rom_read(m, a)} :
           /\ panic' = r.m.panic
           /\ prev' = m
           /\ ev' = [ev EXCEPT !.kind = "rom_read", !.addr = a, !.val = 0, !.rval = r.v,
                               !.index = Mapper_rom_addr(m, a)]
  /\ steps' = steps + 1
  /\ UNCHANGED <<cpu, bus, timer, ppu, rom, oos>>

\* a read of 0xA000..0xBFFF: Cart::ram_read
RamRead ==
  /\ steps < MaxCartOps
  /\ ~panic
  /\ \E a \in CartRamAddrs :
       \E m \in {Machine} :
         \E r \in {Cart_ram_read(m, a)} :
           /\ panic' = r.m.panic
           /\ prev' = m
           /\ ev' = [ev EXCEPT !.kind = "ram_read", !.addr = a, !.val = 0, !.rval = r.v,
                               !.index = 0]
  /\ steps' = steps + 1
  /\ UNCHANGED <<cpu, bus, timer, ppu, rom, oos>>

\* a write to 0xA000..0xBFFF: Cart::ram_write
RamWrite ==
  /\ steps < MaxCartOps
  /\ ~panic
  /\ \E a \in CartRamAddrs :
       \E m \in {Machine} :
         \E n \in {Cart_ram_write(m, a, 18)} :
           /\ bus' = n.bus
           /\ panic' = n.panic
           /\ prev' = m
           /\ ev' = [ev EXCEPT !.kind = "ram_write", !.addr = a, !.val = 18,
                               !.rval = 0, !.index = 0]
  /\ steps' = steps + 1
  /\ UNCHANGED <<cpu, timer, ppu, rom, oos>>

CartNext == RomWrite \/ RomRead \/ RamRead \/ RamWrite

CartSpec == CartInit /\ [][CartNext]_vars

\* the ROM bank mapped at 0x4000..0x7FFF
MappedBank(m) == Mapper_rom_addr(m, 16384) \div 16384

\* C22: MBC1 with the banking-mode bit 0: a read of 0x0000..0x3FFF is served
\* from the same offset of ROM bank 0, whatever the bank registers hold
C22_Mode0Bank0 ==
  (bus.cart.mapper = "Mbc1" /\ ~panic /\ ev.kind = "rom_read" /\ ev.addr <= 16383
     /\ ~bus.cart.extended_mode)
    => (ev.index = ev.addr /\ ev.rval = ImageByte(ev.addr))

\* a read of 0x0000..0x3FFF in mode 0 with the secondary select register
\* nonzero, on a cartridge whose ROM has a bank 0x20
C22_Witness ==
  /\ bus.cart.mapper = "Mbc1" /\ ~panic /\ ev.kind = "rom_read" /\ ev.addr <= 16383
  /\ ~bus.cart.extended_mode
  /\ bus.cart.ram_select # 0
  /\ bus.cart.rom_banks.banks_count >= 64

\* C23: MBC1: the bank mapped at 0x4000..0x7FFF is never bank 0x00, 0x20,
\* 0x40 or 0x60, whatever the ROM size
C23_NeverBankZero ==
  (bus.cart.mapper = "Mbc1" /\ ~panic) => MappedBank(Machine) \notin {0, 32, 64, 96}

\* C24: MBC5: once the low and the high ROM bank register are written, the
\* bank mapped at 0x4000..0x7FFF is bit 0 of the high byte over the low byte,
\* modulo the number of banks
C24_Mbc5Bank ==
  (bus.cart.mapper = "Mbc5" /\ ~panic /\ ev.lo # -1 /\ ev.hi # -1)
    => MappedBank(Machine) =
         (BitAnd(ev.hi, 1) * 256 + ev.lo) % bus.cart.rom_banks.banks_count

\* C25: no access to the cartridge panics, and a read of external RAM that
\* is absent or disabled returns 0xFF
C25_NoCartFault ==
  /\ ~panic
  /\ (ev.kind = "ram_read" /\ (bus.cart.ram_size = 0 \/ ~bus.cart.ram_enabled))
       => ev.rval = 255

(***************************************************************************)
(* The I/O registers on their own: Bus::write and Bus::read of the          *)
(* registers and of the unmapped addresses, with no tick in between, and   *)
(* the keys of the joypad (Joypad::button_pressed .. dpad_released, which  *)
(* the front end calls on a key event).                                    *)
(***************************************************************************)
\* P1, TMA, TAC, IF, NR52, STAT, SCY, SCX, LYC, BGP, OBP0, OBP1, WY, WX, IE
IoRegs ==
  {65280, 65286, 65287, 65295, 65318, 65345, 65346, 65347, 65349, 65351, 65352,
   65353, 65354, 65355, 65535}

\* the unusable region 0xFEA0..0xFEFF, and I/O addresses nothing is mapped
\* to: 0xFF03, 0xFF08, 0xFF4C, 0xFF7F
IoUnmapped == {65184, 65279, 65283, 65288, 65356, 65407}

\* bits 5..4 of the values are 00, 01, 10, 11 and 11
IoVals == {0, 31, 37, 58, 255}

\* the keys pressed and released: bit 0 (A, right) and bit 3 (start, down)
\* of each group
IoKeys == {1, 8}

IoInit ==
  /\ rom = <<>>
  /\ bus = Bus_new
  /\ ppu = Ppu_new
  /\ timer = Timer_new
  /\ cpu = Cpu_new
  /\ panic = FALSE
  /\ oos = FALSE
  /\ steps = 0
  /\ prev = [cpu |-> cpu, bus |-> bus, timer |-> timer, ppu |-> ppu,
            panic |-> FALSE, oos |-> FALSE]
  /\ ev = [kind |-> "init", addr |-> 0, val |-> 0, rval |-> 0, p1 |-> -1,
           group |-> "none"]

\* Bus::write of a register or an unmapped address; ev.p1 is the last byte
\* written to P1
IoWrite ==
  /\ steps < MaxIoOps
  /\ \E a \in IoRegs \cup IoUnmapped, v \in IoVals :
       \E m \in {Machine} :
         \E n \in {Bus_write(m, a, v)} :
           /\ bus' = n.bus
           /\ ppu' = n.ppu
           /\ timer' = n.timer
           /\ oos' = n.oos
           /\ prev' = m
           /\ ev' = [ev EXCEPT !.kind = "write", !.addr = a, !.val = v, !.rval = 0,
                               !.group = "none",
                               !.p1 = IF a = 65280 THEN v ELSE @]
  /\ steps' = steps + 1
  /\ UNCHANGED <<cpu, rom, panic>>

\* Bus::read of a register or an unmapped address; ev.val stays the byte of
\* the write before it when that write was to the same address, and is -1
\* otherwise
IoRead ==
  /\ steps < MaxIoOps
  /\ \E a \in IoRegs \cup IoUnmapped :
       \E m \in {Machine} :
         /\ prev' = m
         /\ ev' = [ev EXCEPT !.kind = "read", !.addr = a, !.rval = Bus_read(m, a),
                             !.group = "none",
                             !.val = IF ev.kind = "write" /\ ev.addr = a THEN @ ELSE -1]
  /\ steps' = steps + 1
  /\ UNCHANGED <<cpu, bus, timer, ppu, rom, panic, oos>>

\* a key goes down: Joypad::button_pressed or Joypad::dpad_pressed
KeyPress ==
  /\ steps < MaxIoOps
  /\ \E g \in {"buttons", "dpad"}, k \in IoKeys :
       \E m \in {Machine} :
         \E n \in {IF g = "buttons" THEN button_pressed(m, k) ELSE dpad_pressed(m, k)} :
           /\ bus' = n.bus
           /\ prev' = m
           /\ ev' = [ev EXCEPT !.kind = "press", !.addr = 0, !.val = k, !.rval = 0,
                               !.group = g]
  /\ steps' = steps + 1
  /\ UNCHANGED <<cpu, timer, ppu, rom, panic, oos>>

\* a key goes up: Joypad::button_released or Joypad::dpad_released
KeyRelease ==
  /\ steps < MaxIoOps
  /\ \E g \in {"buttons", "dpad"}, k \in IoKeys :
       \E m \in {Machine} :
         \E n \in {IF g = "buttons" THEN button_released(m, k) ELSE dpad_released(m, k)} :
           /\ bus' = n.bus
           /\ prev' = m
           /\ ev' = [ev EXCEPT !.kind = "release", !.addr = 0, !.val = k, !.rval = 0,
                               !.group = g]
  /\ steps' = steps + 1
  /\ UNCHANGED <<cpu, timer, ppu, rom, panic, oos>>

IoNext == IoWrite \/ IoRead \/ KeyPress \/ KeyRelease

IoSpec == IoInit /\ [][IoNext]_vars

\* C26: a read of an unmapped I/O address or of the unusable region returns
\* 0xFF, and a write to one changes no state
C26_UnmappedIo ==
  /\ (ev.kind = "read" /\ ev.addr \in IoUnmapped) => ev.rval = 255
  /\ (ev.kind = "write" /\ ev.addr \in IoUnmapped) => Machine = prev

\* the bits of a register the read-back rule is about (all of them where the
\* claim names no bits), and those among them that always read 1
Readback(addr) ==
  CASE addr = 65280 -> [bits |-> 240, ones |-> 192]
    [] addr = 65287 -> [bits |-> 255, ones |-> 248]
    [] addr = 65295 -> [bits |-> 255, ones |-> 224]
    [] addr = 65345 -> [bits |-> 248, ones |-> 128]
    [] addr = 65318 -> [bits |-> 240, ones |-> 112]
    [] OTHER -> [bits |-> 255, ones |-> 0]

\* C27: a register read straight after a write of V to it returns V in its
\* writable bits and 1 in its read-only bits
C27_ReadBack ==
  (ev.kind = "read" /\ ev.addr \in IoRegs /\ ev.val # -1)
    => BitAnd(ev.rval, Readback(ev.addr).bits) =
         BitOr(BitAnd(ev.val, Readback(ev.addr).bits - Readback(ev.addr).ones),
               Readback(ev.addr).ones)

\* C29: a key press sets the JOYPAD bit of IF exactly when the select line
\* of the key's group was last written as 0 (bit 5 for the buttons, bit 4
\* for the direction keys)
C29_JoypadInterrupt ==
  (ev.kind = "press" /\ ev.p1 # -1 /\ ~Contains(prev.bus.intf, IFlags_joypad))
    => (Contains(bus.intf, IFlags_joypad)
          <=> ~nth_bit(ev.p1, IF ev.group = "buttons" THEN 5 ELSE 4))

(***************************************************************************)
(* The APU on its own: Apu::write and Apu::read of its registers and of    *)
(* the wave RAM, from Apu::default(), under either build.                  *)
(***************************************************************************)
\* NR10, NR12, NR14 (channel 1), NR30, NR34 (wave), NR42, NR44 (noise),
\* NR50, NR51, NR52 and two bytes of the wave RAM
ApuWriteAddrs ==
  {65296, 65298, 65300, 65306, 65310, 65313, 65315, 65316, 65317, 65318, 65328, 65343}

\* 0x00, 0x80 (NR52 on, trigger), 0xF0 (a DAC on) and 0x93
ApuVals == {0, 128, 240, 147}

\* NR52, NR51, NR50, NR13 (which has no arm in Square::read) and the wave RAM
ApuReadAddrs == {65318, 65317, 65316, 65299, 65328}

ApuInit ==
  /\ rom = <<>>
  /\ \E oc \in BOOLEAN : bus = [Bus_new EXCEPT !.apu.overflow_checks = oc]
  /\ ppu = Ppu_new
  /\ timer = Timer_new
  /\ cpu = Cpu_new
  /\ panic = FALSE
  /\ oos = FALSE
  /\ steps = 0
  /\ prev = [cpu |-> cpu, bus |-> bus, timer |-> timer, ppu |-> ppu,
            panic |-> FALSE, oos |-> FALSE]
  /\ ev = [kind |-> "init", addr |-> 0, val |-> 0, rval |-> 0]

\* Apu::write
ApuWrite ==
  /\ steps < MaxApuOps
  /\ ~panic
  /\ \E a \in ApuWriteAddrs, v \in ApuVals :
       \E m \in {Machine} :
         \E n \in {Apu_write(m, a, v)} :
           /\ bus' = n.bus
           /\ panic' = n.panic
           /\ prev' = m
           /\ ev' = [kind |-> "write", addr |-> a, val |-> v, rval |-> 0]
  /\ steps' = steps + 1
  /\ UNCHANGED <<cpu, timer, ppu, rom, oos>>

\* Apu::read
ApuRead ==
  /\ steps < MaxApuOps
  /\ ~panic
  /\ \E a \in ApuReadAddrs :
       \E m \in {Machine} :
         \E r \in {Apu_read(m, a)} :
           /\ panic' = r.m.panic
           /\ prev' = m
           /\ ev' = [kind |-> "read", addr |-> a, val |-> 0, rval |-> r.v]
  /\ steps' = steps + 1
  /\ UNCHANGED <<cpu, bus, timer, ppu, rom, oos>>

ApuNext == ApuWrite \/ ApuRead

ApuSpec == ApuInit /\ [][ApuNext]_vars

ApuChannels == {"square1", "square2", "wave", "noise"}

\* C32: when a write clears bit 7 of NR52, every channel's enabled flag is
\* false, the eight panning bits and both master volumes are 0, and NR52
\* reads with bits 3..0 clear
C32_MasterClear ==
  (ev.kind = "write" /\ ev.addr = 65318 /\ ~nth_bit(ev.val, 7) /\ ~panic) =>
    /\ \A ch \in ApuChannels :
         /\ ~bus.apu[ch].enabled
         /\ ~bus.apu[ch].panning_l
         /\ ~bus.apu[ch].panning_r
    /\ bus.apu.volume_l = 0
    /\ bus.apu.volume_r = 0
    /\ Apu_read(Machine, 65318).v % 16 = 0

\* C33: while the master enable is off, a write to 0xFF10..0xFF25 changes
\* no APU state, a write to NR52 sets the master enable, and a write to the
\* wave RAM stores the byte
C33_WriteGate ==
  (ev.kind = "write" /\ ~prev.bus.apu.apu_enabled /\ ~panic) =>
    /\ ev.addr \in 65296..65317 => bus.apu = prev.bus.apu
    /\ ev.addr = 65318 => bus.apu.apu_enabled = nth_bit(ev.val, 7)
    /\ ev.addr \in 65328..65343 => bus.apu.wave.ram[ev.addr - 65328] = ev.val

(***************************************************************************)
(* The APU over time: Apu::tick, one T-cycle per action, after a program   *)
(* has enabled the APU and started its channels.                           *)
(***************************************************************************)
\* NR52 on; channel 1 with sweep pace 7, length 64, envelope pace 7 from
\* volume 15, triggered with its length enabled.  The second program also
\* starts the wave channel (DAC on, length 256) and the noise channel
\* (length 64, envelope pace 7 rising from 0).
ApuPrograms ==
  {<<<<65318, 128>>, <<65296, 112>>, <<65297, 0>>, <<65298, 247>>, <<65300, 192>>>>,
   <<<<65318, 128>>, <<65296, 112>>, <<65297, 0>>, <<65298, 247>>, <<65300, 192>>,
     <<65306, 0>>, <<65307, 0>>, <<65310, 192>>,
     <<65312, 0>>, <<65313, 15>>, <<65314, 0>>, <<65315, 192>>>>}

RECURSIVE Apu_writes(_, _)
\* the writes of a program, in order
Apu_writes(m, prog) ==
  IF prog = <<>> THEN m
  ELSE Bind(Apu_write(m, Head(prog)[1], Head(prog)[2]), LAMBDA m1 :
       Apu_writes(m1, Tail(prog)))

ApuTickInit ==
  /\ rom = <<>>
  /\ ppu = Ppu_new
  /\ timer = Timer_new
  /\ cpu = Cpu_new
  /\ panic = FALSE
  /\ oos = FALSE
  /\ steps = 0
  /\ \E oc \in BOOLEAN, prog \in ApuPrograms :
       bus = Apu_writes([cpu |-> cpu, bus |-> [Bus_new EXCEPT !.apu.overflow_checks = oc],
                         timer |-> timer, ppu |-> ppu,
                         panic |-> FALSE, oos |-> FALSE], prog).bus
  /\ prev = [cpu |-> cpu, bus |-> bus, timer |-> timer, ppu |-> ppu,
            panic |-> FALSE, oos |-> FALSE]
  /\ ev = [kind |-> "init", len |-> 0, sweep |-> 0, env |-> 0]

\* Apu::tick; ev.len, ev.sweep and ev.env count the ticks so far that moved
\* a length timer, the sweep timer of channel 1, an envelope
ApuTick ==
  /\ steps < MaxApuTicks
  /\ ~panic
  /\ \E m \in {Machine} :
       \E n \in {Apu_tick(m)} :
         /\ bus' = n.bus
         /\ panic' = n.panic
         /\ prev' = m
         /\ ev' = [kind |-> "tick",
                   len |-> ev.len + Bool(\E ch \in ApuChannels :
                              n.bus.apu[ch].length_timer # m.bus.apu[ch].length_timer),
                   sweep |-> ev.sweep + Bool(n.bus.apu.square1.sweep.timer
                                               # m.bus.apu.square1.sweep.timer),
                   env |-> ev.env + Bool(\E ch \in {"square1", "square2", "noise"} :
                              n.bus.apu[ch].env # m.bus.apu[ch].env)]
  /\ steps' = steps + 1
  /\ UNCHANGED <<cpu, timer, ppu, rom, oos>>

ApuTickNext == ApuTick

ApuTickSpec == ApuTickInit /\ [][ApuTickNext]_vars

\* C35: while the APU is enabled, over any number of T-cycles from its
\* start the length counters have been clocked once per 16384 T-cycles, the
\* sweep of channel 1 once per 32768 and the envelopes once per 65536
C35_FrameSequencer ==
  (ev.kind = "tick" /\ bus.apu.apu_enabled /\ ~panic) =>
    /\ ev.len \in (steps \div 16384)..((steps + 16383) \div 16384)
    /\ ev.sweep \in (steps \div 32768)..((steps + 32767) \div 32768)
    /\ ev.env \in (steps \div 65536)..((steps + 65535) \div 65536)

(***************************************************************************)
(* The pixels of a line: Ppu::tick from the start of a frame, with the     *)
(* data the model of the PPU leaves out carried beside it: ev.fifo is the  *)
(* colours in bg_fifo, front first (the tile rows fetched are inputs), and *)
(* the cell of obj_scanline under each pixel is an input.                  *)
(***************************************************************************)
\* LCDC: the LCD on, with each value of obj_enabled and bg_wnd_enabled
PixelCtrls == {128, 129, 130, 131}

\* SCX: no pixel, and three pixels, discarded at the start of the line
PixelScrolls == {0, 3}

\* the colours of a tile row, in the order they leave the FIFO
PixelRows == {<<0, 0, 0, 0, 0, 0, 0, 0>>, <<1, 2, 3, 0, 1, 2, 3, 0>>}

\* the cells of obj_scanline: empty, or a pixel of colour 1 or 3 of an
\* object with priority bit (7) and palette bit (4) clear or set
PixelObjs ==
  {[attr |-> 0, cell |-> ObjFifoEntry_default]}
    \cup {[attr |-> a, cell |-> ObjFifoEntry_new(c, a)] : c \in {1, 3}, a \in {0, 16, 128}}

\* Ppu::new, then BGP = 0xE4, OBP0 = 0xE4, OBP1 = 0x1B, LCDC and SCX
PixelInit ==
  /\ \E c \in PixelCtrls, sx \in PixelScrolls :
       \E n \in {Ppu_write(Ppu_write(Ppu_write(Ppu_write(Ppu_write(
                   [ppu |-> Ppu_new, bus |-> Bus_new],
                   65351, 228), 65352, 228), 65353, 27), 65344, c), 65347, sx)} :
         /\ ppu = n.ppu
         /\ bus = n.bus
  /\ cpu = Cpu_new
  /\ timer = Timer_new
  /\ rom = <<>>
  /\ panic = FALSE
  /\ oos = FALSE
  /\ steps = 0
  /\ prev = [cpu |-> cpu, bus |-> bus, timer |-> timer, ppu |-> ppu,
            panic |-> FALSE, oos |-> FALSE]
  /\ ev = [kind |-> "init", fifo |-> <<>>, bg |-> 0, attr |-> 0,
           obj |-> ObjFifoEntry_default, out |-> 0]

\* the FIFO after a tick that took the machine from m to n: cleared, filled
\* with the row fetched (less the pixel popped in the same tick), popped
PixelFifo(m, n, row) ==
  CASE n.ppu.fetcher.bg_fifo = 0 -> <<>>
    [] m.ppu.fetcher.bg_fifo = 0 ->
         SubSeq(row, 9 - n.ppu.fetcher.bg_fifo, 8)
    [] n.ppu.fetcher.bg_fifo = m.ppu.fetcher.bg_fifo - 1 -> Tail(ev.fifo)
    [] OTHER -> ev.fifo

\* the colour popped from the FIFO in that tick
PixelPopped(m, row) == IF m.ppu.fetcher.bg_fifo = 0 THEN row[1] ELSE Head(ev.fifo)

\* one Ppu::tick; when it sets a pixel (ev.kind = "pixel"), ev.bg is the
\* colour popped from the FIFO, ev.obj the cell of obj_scanline with the
\* attribute byte ev.attr of its object, and ev.out the shade set
PixelTick ==
  /\ steps < MaxPixelTicks
  /\ \E row \in PixelRows, o \in PixelObjs :
       \E m \in {Machine} :
         \E n \in {Ppu_tick(m)} :
           /\ ppu' = n.ppu
           /\ bus' = n.bus
           /\ prev' = m
           /\ ev' = IF n.ppu.fetcher.pixel_x = m.ppu.fetcher.pixel_x + 1
                    THEN [kind |-> "pixel", fifo |-> PixelFifo(m, n, row),
                          bg |-> PixelPopped(m, row), attr |-> o.attr, obj |-> o.cell,
                          out |-> push_pixel_color(m, PixelPopped(m, row), o.cell)]
                    ELSE [kind |-> "tick", fifo |-> PixelFifo(m, n, row),
                          bg |-> 0, attr |-> 0, obj |-> ObjFifoEntry_default, out |-> 0]
  /\ steps' = steps + 1
  /\ UNCHANGED <<cpu, timer, rom, panic, oos>>

PixelNext == PixelTick

PixelSpec == PixelInit /\ [][PixelNext]_vars

\* the BG colour of the pixel as the object test sees it
BgColorTested == IF Contains(prev.ppu.ctrl, Ctrl_bg_wnd_enabled) THEN ev.bg ELSE 0

\* C34: with bg_wnd_enabled 0 the BG colour is 0 before the object test;
\* the object pixel is drawn (through OBP0 or OBP1) exactly when obj_enabled
\* is 1, its colour is not 0 and its priority bit is 0 or the BG colour is
\* 0; the BG colour through BGP is drawn in every other case
C34_PixelComposition ==
  ev.kind = "pixel" =>
    ev.out = IF /\ Contains(prev.ppu.ctrl, Ctrl_obj_enabled)
                /\ ev.obj.color # 0
                /\ (~nth_bit(ev.attr, 7) \/ BgColorTested = 0)
             THEN obj_palette(prev, nth_bit(ev.attr, 4), ev.obj.color)
             ELSE bg_palette(prev, BgColorTested)

(***************************************************************************)
(* The driver loop (src/src/gb.rs): Gameboy::step_until_vblank takes       *)
(* frame_ready and returns if it was set, and calls step() otherwise.      *)
(***************************************************************************)
\* HALT with no interrupt enabled; the same with the LCD switched off
\* first; JR -2 for ever, LCD on and LCD off; the VBLANK interrupt enabled
\* and HALT in a loop; IE = IF = 0x21 and EI
FramePrograms ==
  { <<118>>,
    <<175, 224, 64, 118>>,
    <<24, 254>>,
    <<175, 224, 64, 24, 254>>,
    <<62, 1, 224, 255, 251, 118, 24, 253>>,
    <<62, 33, 224, 255, 224, 15, 251, 0, 0>> }

\* Gameboy::boot_from_bytes, then the first call of step_until_vblank
FrameInit ==
  /\ rom \in FramePrograms
  /\ cpu = Cpu_new
  /\ bus = Bus_new
  /\ timer = Timer_new
  /\ ppu = Ppu_new
  /\ panic = FALSE
  /\ oos = FALSE
  /\ steps = 0
  /\ prev = [cpu |-> cpu, bus |-> bus, timer |-> timer, ppu |-> ppu,
            panic |-> FALSE, oos |-> FALSE]
  /\ ev = [kind |-> "call", returned |-> FALSE, frames |-> 1, halted |-> FALSE]

\* the loop finds frame_ready set: take() clears it and the call returns
LoopBreak ==
  /\ ~ev.returned
  /\ ~panic
  /\ ppu.frame_ready
  /\ ppu' = [ppu EXCEPT !.frame_ready = FALSE]
  /\ ev' = [ev EXCEPT !.kind = "break", !.returned = TRUE]
  /\ UNCHANGED <<cpu, bus, timer, rom, panic, oos, steps, prev>>

\* the loop finds frame_ready clear and calls step(); ev.halted holds
\* whether a step() of this call found the CPU halted, no interrupt enabled
\* and the LCD off
LoopStep ==
  /\ ~ev.returned
  /\ ~panic
  /\ ~ppu.frame_ready
  /\ steps < MaxFrameSteps
  /\ \E m \in {Machine} :
       \E t \in {step(m)} :
         /\ cpu' = t.m.cpu
         /\ bus' = t.m.bus
         /\ timer' = t.m.timer
         /\ ppu' = t.m.ppu
         /\ panic' = t.m.panic
         /\ oos' = t.m.oos
         /\ ev' = [ev EXCEPT !.kind = "step",
                             !.halted = @ \/ ( /\ m.cpu.halted
                                               /\ m.bus.inte = 0
                                               /\ ~Contains(m.ppu.ctrl, Ctrl_lcd_enabled) )]
  /\ steps' = steps + 1
  /\ UNCHANGED <<rom, prev>>

\* the driver calls step_until_vblank again
LoopCall ==
  /\ ev.returned
  /\ ev.frames < MaxFrames
  /\ ev' = [kind |-> "call", returned |-> FALSE, frames |-> ev.frames + 1,
            halted |-> FALSE]
  /\ steps' = 0
  /\ UNCHANGED <<cpu, bus, timer, ppu, rom, panic, oos, prev>>

FrameNext == LoopBreak \/ LoopStep \/ LoopCall

\* the loop of step_until_vblank runs on until it breaks
FrameSpec == FrameInit /\ [][FrameNext]_vars /\ WF_vars(LoopBreak \/ LoopStep)

\* C38: every call of step_until_vblank returns
C38_StepUntilVblankReturns == (~ev.returned) ~> ev.returned

(***************************************************************************)
(* The OAM DMA of the CPU (src/src/cpu.rs): a program stores V to 0xFF46   *)
(* and runs on; each step() after the start delay copies one byte.         *)
(***************************************************************************)
\* the source pages: work RAM, video RAM, high in echo RAM
DmaCpuPages == {128, 192, 224}

\* the first byte of the source page
DmaCpuFills == {1, 90}

\* LD A,V; LDH (0x46),A and NOPs after it, the source page holding the
\* bytes f, f + 1, ... and OAM zeroed
DmaCpuInit ==
  /\ \E v \in DmaCpuPages, f \in DmaCpuFills :
       /\ rom = <<62, v, 224, 70>>
       /\ bus = [Bus_new EXCEPT !.mem = [c \in {Cell(v * 256 + i) : i \in 0..159} |->
                                           f + (c - Cell(v * 256))]]
  /\ cpu = Cpu_new
  /\ timer = Timer_new
  /\ ppu = Ppu_new
  /\ panic = FALSE
  /\ oos = FALSE
  /\ steps = 0
  /\ prev = [cpu |-> cpu, bus |-> bus, timer |-> timer, ppu |-> ppu,
            panic |-> FALSE, oos |-> FALSE]
  /\ ev = [kind |-> "init", started |-> FALSE]

\* one call of Cpu::step; ev.started holds whether a transfer has begun
DmaCpuStep ==
  /\ ~panic
  /\ steps < MaxDmaSteps
  /\ \E m \in {Machine} :
       \E t \in {step(m)} :
         /\ cpu' = t.m.cpu
         /\ bus' = t.m.bus
         /\ timer' = t.m.timer
         /\ ppu' = t.m.ppu
         /\ panic' = t.m.panic
         /\ oos' = t.m.oos
         /\ prev' = m
         /\ ev' = [kind |-> "step", started |-> ev.started \/ t.m.cpu.dma.transfering]
  /\ steps' = steps + 1
  /\ UNCHANGED rom

DmaCpuNext == DmaCpuStep

DmaCpuSpec == DmaCpuInit /\ [][DmaCpuNext]_vars

\* the transfer has begun and is marked finished
DmaCpuFinished == ev.started /\ ~cpu.dma.transfering

\* C40: when the transfer is marked finished, the byte at 0xFE9F is the
\* byte at (V << 8) + 0x9F: all 160 bytes of the source page are in OAM
C40_DmaCopiesLastByte ==
  DmaCpuFinished =>
    Load(Machine, 65024 + 159) = Load(Machine, cpu.dma.start + 159)

====
